---- MODULE Spec2Model ----
(***************************************************************************)
(* Aab-e-Hayat water-delivery CRM: the record store, the ledger engine and *)
(* the dashboard handlers.                                                 *)
(*                                                                         *)
(* Two dashboards live in the repository:                                  *)
(*   - src/app/dashboard/page.tsx (WaterCRM): one stored entry per signed  *)
(*     in user (crm_<userId>), saves merge into the in-memory snapshot;    *)
(*   - src/unnamed/part_001 (AdvancedWaterCRM): one stored entry           *)
(*     (waterCRM_data), saves merge into the stored snapshot and reload.   *)
(* Spec is the first, AdvSpec the second.  The pure functions are applied  *)
(* to arbitrary inputs: CalcSpec the Calculator totals, SaveSpec the save  *)
(* of an update into a snapshot, DuesSpec the dues list, ReportSpec the    *)
(* expense breakdown, DateSpec the week and month ranges of DateUtils.     *)
(* AwaitSpec splits the awaiting handlers of WaterCRM at their await,      *)
(* SessionSpec runs AdvancedWaterCRM with two identities, RateSpec feeds   *)
(* the rate field of the customer form, ExportSpec runs the export.        *)
(*                                                                         *)
(* Records keep the fields some computation reads or writes; the free-text *)
(* pass-through fields (phone, notes, paymentMethod, createdAt) are left   *)
(* out.  A date string YYYY-MM-DD is a fixed-width sequence of digits,     *)
(* compared as JavaScript compares strings: code unit by code unit.        *)
(***************************************************************************)
EXTENDS Integers, Sequences, FiniteSets, TLC

VARIABLES
    data,     \* React state `data` (the in-memory AppData)
    stored,   \* localStorage: key -> content
    user,     \* the signed-in user id (page.tsx) / the `user` state (part_001)
    view,     \* what is rendered: "loading" (page.tsx: !isLoaded || loading),
              \* "login" (part_001: isLogin), "dashboard", or "crashed" (an
              \* exception left an effect and React unmounted the component)
    clock,    \* the wall clock in milliseconds: what Date.now() returns
    last,     \* the last handler that ran: its name, inputs, pre-state, outcome
    pending   \* the snapshots of awaited saves that setData has not yet put
              \* into `data`, oldest first; empty where a handler is one step

vars == <<data, stored, user, view, clock, last, pending>>

(***************************************************************************)
(* Bounds of the model.                                                    *)
(***************************************************************************)
MaxCustomers == 2
MaxDeliveries == 2
MaxPayments == 2
MaxExpenses == 1
\* records of all four collections together
MaxRecords == 4

\* The wall clock runs from 1 to MaxClock milliseconds.  Two reads of Date.now()
\* in the same millisecond return the same value.
MaxClock == 2
Times == 1..MaxClock

\* Values new Date().toISOString() may return when a save is stamped.
SaveStamps == {9}

NoUser == ""
Users == {"u1"}

(***************************************************************************)
(* Strings.                                                                *)
(***************************************************************************)
\* mutant: the comparison without lower-casing
toLowerCase_Exact(s) == s

\* String.prototype.toLowerCase on the flat numbers of the model
toLowerCase(s) ==
    CASE s = "A1" -> "a1"
      [] s = "B2" -> "b2"
      [] OTHER -> s

\* a < b for strings given as sequences of digits (code-unit comparison)
RECURSIVE StrLT(_, _)
StrLT(a, b) ==
    IF b = <<>> THEN FALSE
    ELSE IF a = <<>> THEN TRUE
    ELSE IF Head(a) # Head(b) THEN Head(a) < Head(b)
    ELSE StrLT(Tail(a), Tail(b))

StrLE(a, b) == a = b \/ StrLT(a, b)

(***************************************************************************)
(* Array helpers.                                                          *)
(***************************************************************************)
\* Array.prototype.reduce((sum, x) => sum + x, 0) over an array of numbers
RECURSIVE sumSeq(_)
sumSeq(nums) ==
    IF nums = <<>> THEN 0 ELSE Head(nums) + sumSeq(Tail(nums))

\* Array.prototype.reduce((sum, x) => sum + x.field, 0)
reduceSum(seq, field) == sumSeq([i \in 1..Len(seq) |-> seq[i][field]])

\* Array.prototype.find(x => x.field === value): the first such element, or the
\* given default
find(seq, field, value, none) ==
    LET hits == {i \in 1..Len(seq) : seq[i][field] = value}
    IN  IF hits = {} THEN none
        ELSE seq[CHOOSE i \in hits : \A j \in hits : i <= j]

NotFound == [id |-> <<"none", 0>>]

(***************************************************************************)
(* AppData and the stored content.                                         *)
(***************************************************************************)
records(d) ==
    Len(d.customers) + Len(d.deliveries) + Len(d.payments) + Len(d.expenses)

EmptyData ==
    [customers |-> <<>>, deliveries |-> <<>>, payments |-> <<>>,
     expenses |-> <<>>, lastSaved |-> 0]

\* content of a localStorage entry: absent, a string JSON.parse rejects, or the
\* JSON text of a value.  JSON.stringify followed by JSON.parse gives back the
\* same value for records of strings and finite numbers, the only values here.
NoItem == [kind |-> "none"]
Corrupt == [kind |-> "corrupt"]
stringify(v) == [kind |-> "json", value |-> v]
parse(s) == s.value
parses(s) == s.kind = "json"

dataKey(userId) == <<"crm", userId>>
AdvDataKey == <<"waterCRM_data">>
AdvUserKey == <<"waterCRM_user">>
Keys == {dataKey(u) : u \in Users} \cup {AdvDataKey, AdvUserKey}

\* mutant: the left operand wins where both name a key
spread_LeftWins(a, b) ==
    [k \in DOMAIN a \cup DOMAIN b |-> IF k \in DOMAIN a THEN a[k] ELSE b[k]]

\* { ...a, ...b }
spread(a, b) ==
    [k \in DOMAIN a \cup DOMAIN b |-> IF k \in DOMAIN b THEN b[k] ELSE a[k]]

(***************************************************************************)
(* Storage (page.tsx).                                                     *)
(***************************************************************************)
\* Storage.getData: { threw, value }
getData(store, userId) ==
    LET item == store[dataKey(userId)]
    IN  IF item.kind = "none" THEN [threw |-> FALSE, value |-> EmptyData]
        ELSE IF parses(item) THEN [threw |-> FALSE, value |-> parse(item)]
        ELSE [threw |-> FALSE, value |-> EmptyData]

\* mutant: the save recomputes the status of every payment from the balance the
\* merged collections give
saveData_Recomputes(store, userId, updates, currentData, now, wr) ==
    LET merged == spread(spread(currentData, updates), [lastSaved |-> now])
        owes(q) ==
            sumSeq([i \in 1..Len(merged.deliveries) |->
                        IF merged.deliveries[i].flatNumber = q.flatNumber
                        THEN merged.deliveries[i].amount ELSE 0])
            - sumSeq([i \in 1..Len(merged.payments) |->
                          IF merged.payments[i].flatNumber = q.flatNumber
                          THEN merged.payments[i].amountReceived ELSE 0])
        updated ==
            [merged EXCEPT !.payments =
                [i \in 1..Len(merged.payments) |->
                    [merged.payments[i] EXCEPT
                        !.status = IF owes(merged.payments[i]) <= 0
                                   THEN "full" ELSE @]]]
    IN  IF wr
        THEN [ret |-> updated,
              store |-> [store EXCEPT ![dataKey(userId)] = stringify(updated)]]
        ELSE [ret |-> currentData, store |-> store]

\* mutant: a failed write still returns the merged snapshot
saveData_ReturnsUpdated(store, userId, updates, currentData, now, wr) ==
    LET updated == spread(spread(currentData, updates), [lastSaved |-> now])
    IN  IF wr
        THEN [ret |-> updated,
              store |-> [store EXCEPT ![dataKey(userId)] = stringify(updated)]]
        ELSE [ret |-> updated, store |-> store]

\* Storage.saveData: { ret, store }; wr is whether localStorage.setItem succeeds
saveData(store, userId, updates, currentData, now, wr) ==
    LET updated == spread(spread(currentData, updates), [lastSaved |-> now])
    IN  IF wr
        THEN [ret |-> updated,
              store |-> [store EXCEPT ![dataKey(userId)] = stringify(updated)]]
        ELSE [ret |-> currentData, store |-> store]

(***************************************************************************)
(* Calculator.                                                             *)
(***************************************************************************)
\* mutant: a balance below zero is reported as zero
getCustomerOutstanding_Floored(flatNumber, deliveries, payments) ==
    LET totalBilled ==
            reduceSum(SelectSeq(deliveries, LAMBDA d : d.flatNumber = flatNumber), "amount")
        totalPaid ==
            reduceSum(SelectSeq(payments, LAMBDA p : p.flatNumber = flatNumber), "amountReceived")
    IN  IF totalBilled - totalPaid < 0 THEN 0 ELSE totalBilled - totalPaid

getCustomerOutstanding(flatNumber, deliveries, payments) ==
    LET totalBilled ==
            reduceSum(SelectSeq(deliveries, LAMBDA d : d.flatNumber = flatNumber), "amount")
        totalPaid ==
            reduceSum(SelectSeq(payments, LAMBDA p : p.flatNumber = flatNumber), "amountReceived")
    IN  totalBilled - totalPaid

\* mutant: the end of the range is excluded
getDateRangeStats_ExclusiveEnd(deliveries, payments, expenses, startDate, endDate) ==
    LET inRange(r) == StrLE(startDate, r.date) /\ StrLT(r.date, endDate)
        filtered == SelectSeq(deliveries, inRange)
        filteredPayments == SelectSeq(payments, inRange)
        filteredExpenses == SelectSeq(expenses, inRange)
    IN  [deliveries |-> Len(filtered),
         bottlesDelivered |-> reduceSum(filtered, "delivered"),
         revenue |-> reduceSum(filtered, "amount"),
         collected |-> reduceSum(filteredPayments, "amountReceived"),
         expenses |-> reduceSum(filteredExpenses, "amount"),
         profit |-> reduceSum(filteredPayments, "amountReceived")
                    - reduceSum(filteredExpenses, "amount"),
         empties |-> reduceSum(filtered, "collected")]

getDateRangeStats(deliveries, payments, expenses, startDate, endDate) ==
    LET inRange(r) == StrLE(startDate, r.date) /\ StrLE(r.date, endDate)
        filtered == SelectSeq(deliveries, inRange)
        filteredPayments == SelectSeq(payments, inRange)
        filteredExpenses == SelectSeq(expenses, inRange)
    IN  [deliveries |-> Len(filtered),
         bottlesDelivered |-> reduceSum(filtered, "delivered"),
         revenue |-> reduceSum(filtered, "amount"),
         collected |-> reduceSum(filteredPayments, "amountReceived"),
         expenses |-> reduceSum(filteredExpenses, "amount"),
         profit |-> reduceSum(filteredPayments, "amountReceived")
                    - reduceSum(filteredExpenses, "amount"),
         empties |-> reduceSum(filtered, "collected")]

\* Time is counted in half days: 1000 * 60 * 60 * 24 milliseconds are DayMs units.
DayMs == 2

\* new Date(date).getTime(): a date string names a day, counted from day 00, and
\* parses to the midnight that begins it
getTime(date) == (10 * date[1] + date[2]) * DayMs

\* Math.floor(a / b) for b > 0
floorDiv(a, b) == IF a >= 0 THEN a \div b ELSE -((-a + b - 1) \div b)

\* the record [0] reads from an empty array, with the '' that `?.date || ''` gives
Undefined == [date |-> <<>>]

\* seq.sort((a, b) => new Date(b.date).getTime() - new Date(a.date).getTime())[0]:
\* the first of the records with the latest date (the sort is stable)
sortedFirst(seq) ==
    LET latest == {i \in 1..Len(seq) :
                      \A j \in 1..Len(seq) : getTime(seq[j].date) <= getTime(seq[i].date)}
    IN  IF seq = <<>> THEN Undefined
        ELSE seq[CHOOSE i \in latest : \A j \in latest : i <= j]

\* mutant: only the customers that are overdue are listed
getOverdueDues_OnlyOverdue(customers, deliveries, payments, today) ==
    LET thirtyDaysAgo == today - 30 * DayMs
        entry(c) ==
            LET outstanding == getCustomerOutstanding(c.flatNumber, deliveries, payments)
                lastDelivery ==
                    sortedFirst(SelectSeq(deliveries, LAMBDA d : d.flatNumber = c.flatNumber))
                lastPayment ==
                    sortedFirst(SelectSeq(payments, LAMBDA q : q.flatNumber = c.flatNumber))
                dueDate == getTime(lastDelivery.date)
            IN  IF outstanding <= 0 \/ ~(lastDelivery # Undefined /\ dueDate < thirtyDaysAgo)
                THEN Undefined
                ELSE [customer |-> c, outstanding |-> outstanding,
                      lastDeliveryDate |-> lastDelivery.date,
                      lastPaymentDate |-> lastPayment.date,
                      daysPending |-> floorDiv(today - dueDate, DayMs),
                      isOverdue |-> TRUE]
    IN  SelectSeq([i \in 1..Len(customers) |-> entry(customers[i])],
                  LAMBDA e : e # Undefined)

\* mutant: overdue from the thirtieth day on, whatever the time of day
getOverdueDues_FromDay30(customers, deliveries, payments, today) ==
    LET thirtyDaysAgo == today - 30 * DayMs
        entry(c) ==
            LET outstanding == getCustomerOutstanding(c.flatNumber, deliveries, payments)
                lastDelivery ==
                    sortedFirst(SelectSeq(deliveries, LAMBDA d : d.flatNumber = c.flatNumber))
                lastPayment ==
                    sortedFirst(SelectSeq(payments, LAMBDA q : q.flatNumber = c.flatNumber))
                dueDate == getTime(lastDelivery.date)
            IN  IF outstanding <= 0 THEN Undefined
                ELSE [customer |-> c, outstanding |-> outstanding,
                      lastDeliveryDate |-> lastDelivery.date,
                      lastPaymentDate |-> lastPayment.date,
                      daysPending |->
                          IF lastDelivery = Undefined THEN 0
                          ELSE floorDiv(today - dueDate, DayMs),
                      isOverdue |->
                          lastDelivery # Undefined /\ dueDate <= thirtyDaysAgo]
    IN  SelectSeq([i \in 1..Len(customers) |-> entry(customers[i])],
                  LAMBDA e : e # Undefined)

\* Calculator.getOverdueDues, today being what new Date().getTime() returns.
\* isOverdue is `dueDate && dueDate < thirtyDaysAgo`: null without a delivery,
\* which is FALSE here.
getOverdueDues(customers, deliveries, payments, today) ==
    LET thirtyDaysAgo == today - 30 * DayMs
        entry(c) ==
            LET outstanding == getCustomerOutstanding(c.flatNumber, deliveries, payments)
                lastDelivery ==
                    sortedFirst(SelectSeq(deliveries, LAMBDA d : d.flatNumber = c.flatNumber))
                lastPayment ==
                    sortedFirst(SelectSeq(payments, LAMBDA q : q.flatNumber = c.flatNumber))
                dueDate == getTime(lastDelivery.date)
            IN  IF outstanding <= 0 THEN Undefined
                ELSE [customer |-> c, outstanding |-> outstanding,
                      lastDeliveryDate |-> lastDelivery.date,
                      lastPaymentDate |-> lastPayment.date,
                      daysPending |->
                          IF lastDelivery = Undefined THEN 0
                          ELSE floorDiv(today - dueDate, DayMs),
                      isOverdue |->
                          lastDelivery # Undefined /\ dueDate < thirtyDaysAgo]
    IN  SelectSeq([i \in 1..Len(customers) |-> entry(customers[i])],
                  LAMBDA e : e # Undefined)

(***************************************************************************)
(* Form values the handlers are run with.                                  *)
(***************************************************************************)
NoDate == <<>>
Dates == {<<0, 1>>, <<0, 2>>, <<1, 0>>}

CustomerForms ==
    {[flatNumber |-> "a1", name |-> "Ali", rate |-> 30],
     [flatNumber |-> "A1", name |-> "Sara", rate |-> 20],
     [flatNumber |-> "b2", name |-> "Sara", rate |-> 20],
     [flatNumber |-> "", name |-> "Ali", rate |-> 30],
     [flatNumber |-> "b2", name |-> "", rate |-> 30]}

DeliveryForms ==
    {[date |-> <<0, 1>>, flatNumber |-> "a1", delivered |-> 10, collected |-> 2],
     [date |-> <<0, 2>>, flatNumber |-> "A1", delivered |-> 5, collected |-> 0],
     [date |-> <<1, 0>>, flatNumber |-> "b2", delivered |-> 5, collected |-> 5],
     [date |-> <<0, 1>>, flatNumber |-> "a1", delivered |-> 0, collected |-> 0],
     [date |-> NoDate, flatNumber |-> "b2", delivered |-> 5, collected |-> 0],
     [date |-> <<0, 2>>, flatNumber |-> "", delivered |-> 5, collected |-> 0]}

PaymentForms ==
    {[date |-> <<0, 2>>, flatNumber |-> "a1", amountReceived |-> 100],
     [date |-> <<1, 0>>, flatNumber |-> "a1", amountReceived |-> 200],
     [date |-> <<0, 1>>, flatNumber |-> "b2", amountReceived |-> 100],
     [date |-> <<0, 1>>, flatNumber |-> "b2", amountReceived |-> 0],
     [date |-> NoDate, flatNumber |-> "a1", amountReceived |-> 100],
     [date |-> <<0, 2>>, flatNumber |-> "", amountReceived |-> 100]}

ExpenseForms ==
    {[date |-> <<0, 2>>, category |-> "fuel", description |-> "diesel", amount |-> 50],
     [date |-> <<0, 2>>, category |-> "fuel", description |-> "", amount |-> 50],
     [date |-> <<0, 2>>, category |-> "fuel", description |-> "diesel", amount |-> 0],
     [date |-> NoDate, category |-> "rent", description |-> "shop", amount |-> 70]}

Ids(prefix) == {<<prefix, t>> : t \in Times}

(***************************************************************************)
(* Handlers of WaterCRM (page.tsx).                                        *)
(* Date.now() is the clock; whether localStorage.setItem succeeds is drawn  *)
(* where the handler calls it.                                             *)
(***************************************************************************)
Pre == [data |-> data, stored |-> stored, user |-> user]

\* The handler that ran last.  A handler that returned early on its form keeps
\* the form; one that was cancelled or whose write failed keeps only its name.
Ran(op, arg, now, out) ==
    last' = [op |-> op,
             arg |-> IF out \in {"cancelled", "writeFailed", "noUser"} THEN 0 ELSE arg,
             now |-> IF out = "saved" THEN now ELSE 0,
             pre |-> Pre, out |-> out]

\* what saveAndReload did: nothing without a user, else the save or its failure
saveOutcome(wr) ==
    IF user = NoUser THEN "noUser" ELSE IF wr THEN "saved" ELSE "writeFailed"

saveAndReload(updates, wr) ==
    IF user = NoUser
    THEN UNCHANGED <<data, stored>>
    ELSE \E stamp \in SaveStamps :
             LET r == saveData(stored, user, updates, data, stamp, wr)
             IN  data' = r.ret /\ stored' = r.store

\* the effect on [isLoaded, user?.id]: runs when the signed-in user changes
fetchData(u) ==
    /\ u # user
    /\ user' = u
    /\ IF u = NoUser
       THEN UNCHANGED <<data, view>> /\ Ran("fetchData", u, 0, "signedOut")
       ELSE LET appData == getData(stored, u)
            IN  /\ data' = appData.value
                /\ view' = "dashboard"
                /\ Ran("fetchData", u, 0, IF appData.threw THEN "threw" ELSE "loaded")
    /\ UNCHANGED <<stored, clock, pending>>

newCustomer(form, now) ==
    [id |-> <<"cust", now>>, flatNumber |-> form.flatNumber,
     name |-> form.name, rate |-> form.rate]

addCustomer(form) ==
    /\ view = "dashboard"
    /\ LET missing == form.flatNumber = "" \/ form.name = ""
           exists ==
               \E i \in 1..Len(data.customers) :
                   toLowerCase(data.customers[i].flatNumber)
                       = toLowerCase(form.flatNumber)
       IN  IF missing \/ exists
           THEN /\ UNCHANGED <<data, stored>>
                /\ Ran("addCustomer", form, 0, IF missing THEN "missing" ELSE "exists")
           ELSE /\ Len(data.customers) < MaxCustomers
                /\ records(data) < MaxRecords
                /\ \E wr \in BOOLEAN :
                       /\ saveAndReload(
                              [customers |->
                                   Append(data.customers, newCustomer(form, clock))],
                              wr)
                       /\ Ran("addCustomer", form, clock, saveOutcome(wr))
    /\ UNCHANGED <<user, view, clock, pending>>

deleteCustomer(id, confirmed) ==
    /\ view = "dashboard"
    /\ LET customer == find(data.customers, "id", id, NotFound)
       IN  IF ~confirmed
           THEN /\ UNCHANGED <<data, stored>>
                /\ Ran("deleteCustomer", id, 0, "cancelled")
           ELSE IF customer = NotFound
           THEN /\ UNCHANGED <<data, stored>>
                /\ Ran("deleteCustomer", id, 0, "notFound")
           ELSE \E wr \in BOOLEAN :
                    /\ saveAndReload(
                           [customers |->
                                SelectSeq(data.customers, LAMBDA c : c.id # id),
                            deliveries |->
                                SelectSeq(data.deliveries,
                                          LAMBDA d : d.flatNumber # customer.flatNumber),
                            payments |->
                                SelectSeq(data.payments,
                                          LAMBDA p : p.flatNumber # customer.flatNumber)],
                           wr)
                    /\ Ran("deleteCustomer", id, 0, saveOutcome(wr))
    /\ UNCHANGED <<user, view, clock, pending>>

\* mutant: the amount at the form's default rate, not the customer's
newDelivery_DefaultRate(form, customer, now) ==
    [id |-> <<"del", now>>, date |-> form.date, flatNumber |-> form.flatNumber,
     customerName |-> customer.name, delivered |-> form.delivered,
     collected |-> form.collected, amount |-> form.delivered * 30]

newDelivery(form, customer, now) ==
    [id |-> <<"del", now>>, date |-> form.date, flatNumber |-> form.flatNumber,
     customerName |-> customer.name, delivered |-> form.delivered,
     collected |-> form.collected, amount |-> form.delivered * customer.rate]

addDelivery(form) ==
    /\ view = "dashboard"
    /\ LET missing ==
               form.date = NoDate \/ form.flatNumber = "" \/ form.delivered = 0
           customer ==
               find(data.customers, "flatNumber", form.flatNumber, NotFound)
       IN  IF missing
           THEN UNCHANGED <<data, stored>> /\ Ran("addDelivery", form, 0, "missing")
           ELSE IF customer = NotFound
           THEN UNCHANGED <<data, stored>> /\ Ran("addDelivery", form, 0, "notFound")
           ELSE /\ Len(data.deliveries) < MaxDeliveries
                /\ records(data) < MaxRecords
                /\ \E wr \in BOOLEAN :
                       /\ saveAndReload(
                              [deliveries |->
                                   Append(data.deliveries,
                                          newDelivery(form, customer, clock))],
                              wr)
                       /\ Ran("addDelivery", form, clock, saveOutcome(wr))
    /\ UNCHANGED <<user, view, clock, pending>>

deleteDelivery(id, confirmed) ==
    /\ view = "dashboard"
    /\ IF ~confirmed
       THEN UNCHANGED <<data, stored>> /\ Ran("deleteDelivery", id, 0, "cancelled")
       ELSE \E wr \in BOOLEAN :
                /\ saveAndReload(
                       [deliveries |->
                            SelectSeq(data.deliveries, LAMBDA d : d.id # id)],
                       wr)
                /\ Ran("deleteDelivery", id, 0, saveOutcome(wr))
    /\ UNCHANGED <<user, view, clock, pending>>

\* mutant: "full" without asking whether anything was owed
paymentStatus_NoDebtCheck(amountReceived, outstanding) ==
    IF amountReceived >= outstanding THEN "full"
    ELSE IF amountReceived > 0 /\ amountReceived < outstanding THEN "partial"
    ELSE "pending"

\* the status addPayment computes from the outstanding balance and the amount
paymentStatus(amountReceived, outstanding) ==
    IF amountReceived >= outstanding /\ outstanding > 0 THEN "full"
    ELSE IF amountReceived > 0 /\ amountReceived < outstanding THEN "partial"
    ELSE "pending"

\* mutant: the remaining balance is not floored at zero
newPayment_NoFloor(form, customer, deliveries, payments, now) ==
    LET outstanding == getCustomerOutstanding(form.flatNumber, deliveries, payments)
    IN  [id |-> <<"pay", now>>, date |-> form.date, flatNumber |-> form.flatNumber,
         customerName |-> customer.name, totalBill |-> outstanding,
         amountReceived |-> form.amountReceived,
         remainingBalance |-> outstanding - form.amountReceived,
         status |-> paymentStatus(form.amountReceived, outstanding)]

\* mutant: no more than the balance is booked as received
newPayment_CapsAmount(form, customer, deliveries, payments, now) ==
    LET outstanding == getCustomerOutstanding(form.flatNumber, deliveries, payments)
        booked ==
            IF outstanding > 0 /\ form.amountReceived > outstanding
            THEN outstanding ELSE form.amountReceived
        remaining == outstanding - booked
    IN  [id |-> <<"pay", now>>, date |-> form.date, flatNumber |-> form.flatNumber,
         customerName |-> customer.name, totalBill |-> outstanding,
         amountReceived |-> booked,
         remainingBalance |-> IF remaining > 0 THEN remaining ELSE 0,
         status |-> paymentStatus(form.amountReceived, outstanding)]

newPayment(form, customer, deliveries, payments, now) ==
    LET outstanding == getCustomerOutstanding(form.flatNumber, deliveries, payments)
        remaining == outstanding - form.amountReceived
    IN  [id |-> <<"pay", now>>, date |-> form.date, flatNumber |-> form.flatNumber,
         customerName |-> customer.name, totalBill |-> outstanding,
         amountReceived |-> form.amountReceived,
         remainingBalance |-> IF remaining > 0 THEN remaining ELSE 0,
         status |-> paymentStatus(form.amountReceived, outstanding)]

addPayment(form) ==
    /\ view = "dashboard"
    /\ LET missing ==
               form.date = NoDate \/ form.flatNumber = "" \/ form.amountReceived = 0
           customer ==
               find(data.customers, "flatNumber", form.flatNumber, NotFound)
       IN  IF missing
           THEN UNCHANGED <<data, stored>> /\ Ran("addPayment", form, 0, "missing")
           ELSE IF customer = NotFound
           THEN UNCHANGED <<data, stored>> /\ Ran("addPayment", form, 0, "notFound")
           ELSE /\ Len(data.payments) < MaxPayments
                /\ records(data) < MaxRecords
                /\ \E wr \in BOOLEAN :
                       /\ saveAndReload(
                              [payments |->
                                   Append(data.payments,
                                          newPayment(form, customer, data.deliveries,
                                                     data.payments, clock))],
                              wr)
                       /\ Ran("addPayment", form, clock, saveOutcome(wr))
    /\ UNCHANGED <<user, view, clock, pending>>

deletePayment(id, confirmed) ==
    /\ view = "dashboard"
    /\ IF ~confirmed
       THEN UNCHANGED <<data, stored>> /\ Ran("deletePayment", id, 0, "cancelled")
       ELSE \E wr \in BOOLEAN :
                /\ saveAndReload(
                       [payments |-> SelectSeq(data.payments, LAMBDA p : p.id # id)],
                       wr)
                /\ Ran("deletePayment", id, 0, saveOutcome(wr))
    /\ UNCHANGED <<user, view, clock, pending>>

newExpense(form, now) ==
    [id |-> <<"exp", now>>, date |-> form.date, category |-> form.category,
     description |-> form.description, amount |-> form.amount]

\* mutant: an expense without a description is accepted
addExpense_NoDescriptionCheck(form) ==
    /\ view = "dashboard"
    /\ LET missing == form.date = NoDate \/ form.amount = 0
       IN  IF missing
           THEN UNCHANGED <<data, stored>> /\ Ran("addExpense", form, 0, "missing")
           ELSE /\ Len(data.expenses) < MaxExpenses
                /\ records(data) < MaxRecords
                /\ \E wr \in BOOLEAN :
                       /\ saveAndReload(
                              [expenses |->
                                   Append(data.expenses, newExpense(form, clock))],
                              wr)
                       /\ Ran("addExpense", form, clock, saveOutcome(wr))
    /\ UNCHANGED <<user, view, clock, pending>>

addExpense(form) ==
    /\ view = "dashboard"
    /\ LET missing ==
               form.date = NoDate \/ form.description = "" \/ form.amount = 0
       IN  IF missing
           THEN UNCHANGED <<data, stored>> /\ Ran("addExpense", form, 0, "missing")
           ELSE /\ Len(data.expenses) < MaxExpenses
                /\ records(data) < MaxRecords
                /\ \E wr \in BOOLEAN :
                       /\ saveAndReload(
                              [expenses |->
                                   Append(data.expenses, newExpense(form, clock))],
                              wr)
                       /\ Ran("addExpense", form, clock, saveOutcome(wr))
    /\ UNCHANGED <<user, view, clock, pending>>

deleteExpense(id, confirmed) ==
    /\ view = "dashboard"
    /\ IF ~confirmed
       THEN UNCHANGED <<data, stored>> /\ Ran("deleteExpense", id, 0, "cancelled")
       ELSE \E wr \in BOOLEAN :
                /\ saveAndReload(
                       [expenses |-> SelectSeq(data.expenses, LAMBDA e : e.id # id)],
                       wr)
                /\ Ran("deleteExpense", id, 0, saveOutcome(wr))
    /\ UNCHANGED <<user, view, clock, pending>>

(***************************************************************************)
(* WaterCRM: what the reports show.                                        *)
(***************************************************************************)
\* the totals of getStats; its today, week and month entries depend on the
\* clock and are getDateRangeStats over the ranges of DateUtils
getStats(d) ==
    LET totalRevenue == reduceSum(d.deliveries, "amount")
        totalCollected == reduceSum(d.payments, "amountReceived")
        totalExpenses == reduceSum(d.expenses, "amount")
    IN  [totalCustomers |-> Len(d.customers),
         totalRevenue |-> totalRevenue,
         totalCollected |-> totalCollected,
         totalExpenses |-> totalExpenses,
         outstanding |-> totalRevenue - totalCollected,
         netProfit |-> totalCollected - totalExpenses,
         pendingEmpties |->
             reduceSum(d.deliveries, "delivered") - reduceSum(d.deliveries, "collected")]

\* a / b of two JavaScript numbers that are integers: a ratio, or NaN or an
\* infinity when b is 0
divide(a, b) ==
    IF b # 0 THEN [kind |-> "finite", num |-> a, den |-> b]
    ELSE IF a = 0 THEN [kind |-> "NaN"]
    ELSE IF a > 0 THEN [kind |-> "Infinity"]
    ELSE [kind |-> "-Infinity"]

\* ((totalCollected / totalRevenue) * 100 || 0).toFixed(1), for amounts >= 0:
\* the tenths of a percent shown, or the word toFixed gives for an infinity
collectionRate(stats) ==
    LET q == divide(stats.totalCollected, stats.totalRevenue)
    IN  IF q.kind = "NaN" THEN [kind |-> "finite", tenths |-> 0]
        ELSE IF q.kind = "finite"
        THEN [kind |-> "finite",
              tenths |-> (2 * 1000 * q.num + q.den) \div (2 * q.den)]
        ELSE [kind |-> q.kind]

(***************************************************************************)
(* WaterCRM: the specification.                                            *)
(***************************************************************************)
NoneRan == [op |-> "none", arg |-> 0, now |-> 0, pre |-> 0, out |-> "none"]

\* the component as constructed; the stored entries are absent or unreadable
Init ==
    /\ data = EmptyData
    /\ stored \in [Keys -> {NoItem, Corrupt}]
    /\ stored[AdvDataKey] = NoItem
    /\ stored[AdvUserKey] = NoItem
    /\ user = NoUser
    /\ view = "loading"
    /\ last = NoneRan
    /\ pending = <<>>
    /\ clock = 1

\* a millisecond passes
tick ==
    /\ clock < MaxClock
    /\ clock' = clock + 1
    /\ UNCHANGED <<data, stored, user, view, last, pending>>

Next ==
    \/ tick
    \/ \E u \in Users : fetchData(u)
    \/ \E form \in CustomerForms : addCustomer(form)
    \/ \E id \in Ids("cust"), confirmed \in BOOLEAN : deleteCustomer(id, confirmed)
    \/ \E form \in DeliveryForms : addDelivery(form)
    \/ \E id \in Ids("del"), confirmed \in BOOLEAN : deleteDelivery(id, confirmed)
    \/ \E form \in PaymentForms : addPayment(form)
    \/ \E id \in Ids("pay"), confirmed \in BOOLEAN : deletePayment(id, confirmed)
    \/ \E form \in ExpenseForms : addExpense(form)
    \/ \E id \in Ids("exp"), confirmed \in BOOLEAN : deleteExpense(id, confirmed)

Spec == Init /\ [][Next]_vars

(***************************************************************************)
(* WaterCRM with the handlers taken at their await.  A handler is an async *)
(* function over the `data` of the render it was created in.  Up to the    *)
(* await of saveAndReload it runs in one piece, Storage.saveData and its   *)
(* setItem included; the snapshot saveData returned reaches `data` when    *)
(* the awaited promise resumes saveAndReload and setData is rendered.      *)
(* Nothing in the handlers keeps another handler from starting before.     *)
(***************************************************************************)
\* awaited saves that may be outstanding at once
MaxPending == 2

\* saveAndReload up to `await Storage.saveData(...)`
saveAndReload_await(updates, wr) ==
    IF user = NoUser
    THEN UNCHANGED <<data, stored, pending>>
    ELSE \E stamp \in SaveStamps :
             LET r == saveData(stored, user, updates, data, stamp, wr)
             IN  /\ stored' = r.store
                 /\ pending' = Append(pending, r.ret)
                 /\ UNCHANGED data

\* saveAndReload from its await on: setData(updated), and the render
setData ==
    /\ pending # <<>>
    /\ data' = Head(pending)
    /\ pending' = Tail(pending)
    /\ last' = [op |-> "setData", arg |-> 0, now |-> 0, pre |-> Pre, out |-> "rendered"]
    /\ UNCHANGED <<stored, user, view, clock>>

Await_addCustomer(form) ==
    /\ view = "dashboard"
    /\ LET missing == form.flatNumber = "" \/ form.name = ""
           exists ==
               \E i \in 1..Len(data.customers) :
                   toLowerCase(data.customers[i].flatNumber)
                       = toLowerCase(form.flatNumber)
       IN  IF missing \/ exists
           THEN /\ UNCHANGED <<data, stored, pending>>
                /\ Ran("addCustomer", form, 0, IF missing THEN "missing" ELSE "exists")
           ELSE /\ Len(data.customers) < MaxCustomers
                /\ Len(pending) < MaxPending
                /\ \E wr \in BOOLEAN :
                       /\ saveAndReload_await(
                              [customers |->
                                   Append(data.customers, newCustomer(form, clock))],
                              wr)
                       /\ Ran("addCustomer", form, clock, saveOutcome(wr))
    /\ UNCHANGED <<user, view, clock>>

Await_addDelivery(form) ==
    /\ view = "dashboard"
    /\ LET missing ==
               form.date = NoDate \/ form.flatNumber = "" \/ form.delivered = 0
           customer ==
               find(data.customers, "flatNumber", form.flatNumber, NotFound)
       IN  IF missing
           THEN /\ UNCHANGED <<data, stored, pending>>
                /\ Ran("addDelivery", form, 0, "missing")
           ELSE IF customer = NotFound
           THEN /\ UNCHANGED <<data, stored, pending>>
                /\ Ran("addDelivery", form, 0, "notFound")
           ELSE /\ Len(data.deliveries) < MaxDeliveries
                /\ Len(pending) < MaxPending
                /\ \E wr \in BOOLEAN :
                       /\ saveAndReload_await(
                              [deliveries |->
                                   Append(data.deliveries,
                                          newDelivery(form, customer, clock))],
                              wr)
                       /\ Ran("addDelivery", form, clock, saveOutcome(wr))
    /\ UNCHANGED <<user, view, clock>>

Await_addPayment(form) ==
    /\ view = "dashboard"
    /\ LET missing ==
               form.date = NoDate \/ form.flatNumber = "" \/ form.amountReceived = 0
           customer ==
               find(data.customers, "flatNumber", form.flatNumber, NotFound)
       IN  IF missing
           THEN /\ UNCHANGED <<data, stored, pending>>
                /\ Ran("addPayment", form, 0, "missing")
           ELSE IF customer = NotFound
           THEN /\ UNCHANGED <<data, stored, pending>>
                /\ Ran("addPayment", form, 0, "notFound")
           ELSE /\ Len(data.payments) < MaxPayments
                /\ Len(pending) < MaxPending
                /\ \E wr \in BOOLEAN :
                       /\ saveAndReload_await(
                              [payments |->
                                   Append(data.payments,
                                          newPayment(form, customer, data.deliveries,
                                                     data.payments, clock))],
                              wr)
                       /\ Ran("addPayment", form, clock, saveOutcome(wr))
    /\ UNCHANGED <<user, view, clock>>

\* the forms of the handlers taken at their await: those of two customers, of
\* the first date, and the empty ones
AwaitCustomerForms ==
    {f \in CustomerForms :
        \/ f.flatNumber \in {"a1", "b2"} /\ f.name # ""
        \/ f.flatNumber = ""}
AwaitDeliveryForms ==
    {f \in DeliveryForms : f.date = <<0, 1>> \/ f.flatNumber = ""}
AwaitPaymentForms ==
    {f \in PaymentForms : f.date = <<0, 1>> \/ f.flatNumber = ""}

\* the dashboard of a signed-in user over a store without an entry, loaded
AwaitInit ==
    /\ data = EmptyData
    /\ stored = [k \in Keys |-> NoItem]
    /\ user \in Users
    /\ view = "dashboard"
    /\ last = NoneRan
    /\ pending = <<>>
    /\ clock = 1

AwaitNext ==
    \/ tick
    \/ setData
    \/ \E form \in AwaitCustomerForms : Await_addCustomer(form)
    \/ \E form \in AwaitDeliveryForms : Await_addDelivery(form)
    \/ \E form \in AwaitPaymentForms : Await_addPayment(form)

AwaitSpec == AwaitInit /\ [][AwaitNext]_vars

(***************************************************************************)
(* WaterCRM: the rate field of the customer form.  The text of the field   *)
(* is a sequence of characters; an <input type="number"> holds the empty   *)
(* text or the text of a number, signed, with a fraction or an exponent.   *)
(***************************************************************************)
DigitChars == {"0", "1", "2", "3", "4", "5", "6", "7", "8", "9"}

digitValue(ch) ==
    CASE ch = "0" -> 0 [] ch = "1" -> 1 [] ch = "2" -> 2 [] ch = "3" -> 3
      [] ch = "4" -> 4 [] ch = "5" -> 5 [] ch = "6" -> 6 [] ch = "7" -> 7
      [] ch = "8" -> 8 [] ch = "9" -> 9

\* the value of the longest prefix of digits of text, read after the digits
\* that gave acc; seen is whether a digit was read
RECURSIVE parseDigits(_, _, _)
parseDigits(text, acc, seen) ==
    IF text # <<>> /\ Head(text) \in DigitChars
    THEN parseDigits(Tail(text), 10 * acc + digitValue(Head(text)), TRUE)
    ELSE [isNaN |-> ~seen, value |-> acc]

\* parseInt(text): an optional sign, then digits up to the first other
\* character; NaN when there is no digit
parseInt(text) ==
    LET negative == text # <<>> /\ Head(text) = "-"
        signed == text # <<>> /\ Head(text) \in {"-", "+"}
        p == parseDigits(IF signed THEN Tail(text) ELSE text, 0, FALSE)
    IN  IF p.isNaN THEN p
        ELSE [isNaN |-> FALSE, value |-> IF negative THEN 0 - p.value ELSE p.value]

\* onChange of the rate field: parseInt(e.target.value) || 30
rateChange(text) ==
    LET p == parseInt(text)
    IN  IF p.isNaN \/ p.value = 0 THEN 30 ELSE p.value

\* texts of the rate field: "", "0", "25", "-5", "1.5", "0.5", "2e1"
RateTexts ==
    {<<>>, <<"0">>, <<"2", "5">>, <<"-", "5">>, <<"1", ".", "5">>,
     <<"0", ".", "5">>, <<"2", "e", "1">>}

\* the customer form once the flat, the name and the rate have been typed
RateForms ==
    {[flatNumber |-> f, name |-> "Ali", rate |-> rateChange(text)] :
        f \in {"a1", "b2"}, text \in RateTexts}

\* the dashboard of a signed-in user over a store without an entry, loaded
RateInit ==
    /\ data = EmptyData
    /\ stored = [k \in Keys |-> NoItem]
    /\ user \in Users
    /\ view = "dashboard"
    /\ last = NoneRan
    /\ pending = <<>>
    /\ clock = 1

RateNext ==
    \/ tick
    \/ \E form \in RateForms : addCustomer(form)
    \/ \E id \in Ids("cust"), confirmed \in BOOLEAN : deleteCustomer(id, confirmed)

RateSpec == RateInit /\ [][RateNext]_vars

(***************************************************************************)
(* The Calculator on arbitrary collections.                                *)
(***************************************************************************)
MaxCalcLen == 2

\* sequences over S of length at most n
SeqsUpTo(S, n) == UNION {[1..k -> S] : k \in 0..n}

CalcFlats == {"a1", "A1", "b2"}

CalcDeliveries ==
    {[flatNumber |-> "a1", date |-> <<0, 1>>, delivered |-> 10, collected |-> 2, amount |-> 300],
     [flatNumber |-> "A1", date |-> <<0, 2>>, delivered |-> 5, collected |-> 1, amount |-> 100],
     [flatNumber |-> "b2", date |-> <<1, 0>>, delivered |-> 4, collected |-> 4, amount |-> 80],
     [flatNumber |-> "a1", date |-> <<1, 0>>, delivered |-> 0, collected |-> 3, amount |-> 0]}

CalcPayments ==
    {[flatNumber |-> "a1", date |-> <<0, 2>>, amountReceived |-> 100],
     [flatNumber |-> "a1", date |-> <<1, 0>>, amountReceived |-> 400],
     [flatNumber |-> "A1", date |-> <<0, 1>>, amountReceived |-> 50],
     [flatNumber |-> "b2", date |-> <<0, 1>>, amountReceived |-> 0]}

CalcExpenses ==
    {[date |-> <<0, 2>>, amount |-> 50],
     [date |-> <<1, 0>>, amount |-> 70]}

CalcInit ==
    /\ data \in [customers : {<<>>},
                 deliveries : SeqsUpTo(CalcDeliveries, MaxCalcLen),
                 payments : SeqsUpTo(CalcPayments, MaxCalcLen),
                 expenses : SeqsUpTo(CalcExpenses, MaxCalcLen),
                 lastSaved : {0}]
    /\ stored = [k \in Keys |-> NoItem]
    /\ user = NoUser
    /\ view = "dashboard"
    /\ last = NoneRan
    /\ pending = <<>>
    /\ clock = 1

\* Calculator.getCustomerOutstanding applied to the collections
outstandingOf(flatNumber) ==
    /\ last' = [op |-> "getCustomerOutstanding", arg |-> flatNumber, now |-> 0, pre |-> 0,
                out |-> getCustomerOutstanding(flatNumber, data.deliveries, data.payments)]
    /\ UNCHANGED <<data, stored, user, view, clock, pending>>

\* Calculator.getDateRangeStats applied to the collections
dateRangeStats(startDate, endDate) ==
    /\ last' = [op |-> "getDateRangeStats", arg |-> <<startDate, endDate>>, now |-> 0,
                pre |-> 0,
                out |-> getDateRangeStats(data.deliveries, data.payments, data.expenses,
                                          startDate, endDate)]
    /\ UNCHANGED <<data, stored, user, view, clock, pending>>

CalcNext ==
    \/ \E flatNumber \in CalcFlats : outstandingOf(flatNumber)
    \/ \E startDate \in Dates, endDate \in Dates : dateRangeStats(startDate, endDate)

CalcSpec == CalcInit /\ [][CalcNext]_vars

(***************************************************************************)
(* Storage.saveData through saveAndReload, on arbitrary snapshots and      *)
(* partial updates.                                                        *)
(***************************************************************************)
SaveTimes == {7, 8}

SaveCustomers == {<<>>, <<[id |-> <<"cust", 1>>, flatNumber |-> "a1", name |-> "Ali", rate |-> 30]>>}
SaveDeliveries ==
    {<<>>, <<[id |-> <<"del", 1>>, date |-> <<0, 1>>, flatNumber |-> "a1",
              customerName |-> "Ali", delivered |-> 10, collected |-> 2, amount |-> 300]>>}
SavePayments ==
    {<<>>, <<[id |-> <<"pay", 1>>, date |-> <<0, 2>>, flatNumber |-> "a1",
              customerName |-> "Ali", totalBill |-> 300, amountReceived |-> 100,
              remainingBalance |-> 200, status |-> "partial"]>>}
SaveExpenses ==
    {<<>>, <<[id |-> <<"exp", 1>>, date |-> <<0, 2>>, category |-> "fuel",
              description |-> "diesel", amount |-> 50]>>}

\* Partial<AppData>: the updates the handlers pass, over the values above
SaveUpdates ==
    {[customers |-> c] : c \in SaveCustomers}
    \cup {[deliveries |-> d] : d \in SaveDeliveries}
    \cup {[payments |-> q] : q \in SavePayments}
    \cup {[expenses |-> e] : e \in SaveExpenses}
    \cup {[customers |-> c, deliveries |-> <<>>, payments |-> <<>>] : c \in SaveCustomers}

SaveInit ==
    /\ data \in [customers : SaveCustomers, deliveries : SaveDeliveries,
                 payments : SavePayments, expenses : SaveExpenses, lastSaved : {0}]
    /\ stored \in [Keys -> {NoItem, Corrupt}]
    /\ stored[AdvDataKey] = NoItem
    /\ stored[AdvUserKey] = NoItem
    /\ user \in Users
    /\ view = "dashboard"
    /\ last = NoneRan
    /\ pending = <<>>
    /\ clock = 1

\* saveAndReload(updates) at the time now
saveAndReloadAt(updates, now, wr) ==
    /\ LET r == saveData(stored, user, updates, data, now, wr)
       IN  /\ data' = r.ret
           /\ stored' = r.store
    /\ last' = [op |-> "saveAndReload", arg |-> updates, now |-> now, pre |-> Pre,
                out |-> IF wr THEN "saved" ELSE "writeFailed"]
    /\ UNCHANGED <<user, view, clock, pending>>

SaveNext ==
    \E updates \in SaveUpdates, now \in SaveTimes, wr \in BOOLEAN :
        saveAndReloadAt(updates, now, wr)

SaveSpec == SaveInit /\ [][SaveNext]_vars

(***************************************************************************)
(* Calculator.getOverdueDues on arbitrary collections and clock readings.  *)
(***************************************************************************)
MaxDuesLen == 2

DuesCustomers ==
    LET a1 == [id |-> <<"cust", 1>>, flatNumber |-> "a1", name |-> "Ali", rate |-> 30]
        b2 == [id |-> <<"cust", 2>>, flatNumber |-> "b2", name |-> "Sara", rate |-> 20]
    IN  {<<>>, <<a1>>, <<a1, b2>>, <<b2, a1>>}

\* deliveries of day 10, day 20 and day 51
DuesDeliveries ==
    {[flatNumber |-> "a1", date |-> <<1, 0>>, amount |-> 300],
     [flatNumber |-> "a1", date |-> <<2, 0>>, amount |-> 300],
     [flatNumber |-> "a1", date |-> <<5, 1>>, amount |-> 30],
     [flatNumber |-> "b2", date |-> <<2, 0>>, amount |-> 100],
     [flatNumber |-> "A1", date |-> <<1, 0>>, amount |-> 40]}

DuesPayments ==
    {[flatNumber |-> "a1", date |-> <<2, 0>>, amountReceived |-> 100],
     [flatNumber |-> "a1", date |-> <<1, 0>>, amountReceived |-> 300],
     [flatNumber |-> "b2", date |-> <<2, 0>>, amountReceived |-> 100]}

\* clock readings: the midnight that begins day 50, its noon, and the noon of day 30
DuesNows == {50 * DayMs, 50 * DayMs + 1, 30 * DayMs + 1}

DuesInit ==
    /\ data \in [customers : DuesCustomers,
                 deliveries : SeqsUpTo(DuesDeliveries, MaxDuesLen),
                 payments : SeqsUpTo(DuesPayments, MaxDuesLen),
                 expenses : {<<>>},
                 lastSaved : {0}]
    /\ stored = [k \in Keys |-> NoItem]
    /\ user = NoUser
    /\ view = "dashboard"
    /\ last = NoneRan
    /\ pending = <<>>
    /\ clock = 1

\* Calculator.getOverdueDues applied to the collections at the clock reading today
overdueDues(today) ==
    /\ last' = [op |-> "getOverdueDues", arg |-> today, now |-> today, pre |-> 0,
                out |-> getOverdueDues(data.customers, data.deliveries, data.payments, today)]
    /\ UNCHANGED <<data, stored, user, view, clock, pending>>

DuesNext == \E today \in DuesNows : overdueDues(today)

DuesSpec == DuesInit /\ [][DuesNext]_vars

(***************************************************************************)
(* The expense breakdown of the month, on arbitrary expenses and ranges.   *)
(***************************************************************************)
MaxReportLen == 2

\* the categories the breakdown goes through
BreakdownCategories ==
    <<"supplies", "fuel", "maintenance", "salaries", "rent", "utilities">>

\* the options of the category select of the expense form
CategoryOptions ==
    {"supplies", "fuel", "maintenance", "salaries", "rent", "utilities", "other"}

Null == [category |-> "null"]

\* the entries the breakdown renders; month is what DateUtils.getMonthRange() returns
categoryBreakdown(expenses, month) ==
    LET row(cat) ==
            LET catExpenses ==
                    SelectSeq(expenses,
                              LAMBDA e : /\ e.category = cat
                                         /\ StrLE(month.start, e.date)
                                         /\ StrLE(e.date, month.end))
                total == reduceSum(catExpenses, "amount")
            IN  IF total = 0 THEN Null ELSE [category |-> cat, total |-> total]
    IN  SelectSeq([i \in 1..Len(BreakdownCategories) |-> row(BreakdownCategories[i])],
                  LAMBDA r : r # Null)

ReportExpenses ==
    {e \in
     {[date |-> <<0, 2>>, category |-> "fuel", amount |-> 50],
     [date |-> <<0, 2>>, category |-> "fuel", amount |-> -50],
     [date |-> <<1, 0>>, category |-> "rent", amount |-> 70],
     [date |-> <<0, 1>>, category |-> "supplies", amount |-> 20],
     [date |-> <<0, 2>>, category |-> "other", amount |-> 30]} :
     e.category \in CategoryOptions}

ReportMonths ==
    {[start |-> a, end |-> b] : a \in Dates, b \in Dates}

ReportInit ==
    /\ data \in [customers : {<<>>}, deliveries : {<<>>}, payments : {<<>>},
                 expenses : SeqsUpTo(ReportExpenses, MaxReportLen),
                 lastSaved : {0}]
    /\ stored = [k \in Keys |-> NoItem]
    /\ user = NoUser
    /\ view = "dashboard"
    /\ last = NoneRan
    /\ pending = <<>>
    /\ clock = 1

\* the expenses tab is rendered while DateUtils.getMonthRange() returns month
expenseBreakdown(month) ==
    /\ last' = [op |-> "categoryBreakdown", arg |-> month, now |-> 0, pre |-> 0,
                out |-> categoryBreakdown(data.expenses, month)]
    /\ UNCHANGED <<data, stored, user, view, clock, pending>>

ReportNext == \E month \in ReportMonths : expenseBreakdown(month)

ReportSpec == ReportInit /\ [][ReportNext]_vars

(***************************************************************************)
(* DateUtils.  A Date holds an instant, here in hours since                *)
(* 2023-01-01T00:00Z, a Sunday; the local getters and setters read it in   *)
(* the zone of the browser, tz hours ahead of UTC; toISOString reads it in *)
(* UTC.  The date string YYYY-MM-DD is the triple <<YYYY, MM, DD>>.        *)
(***************************************************************************)
Years == 2023..2025

isLeap(y) == y % 4 = 0 /\ (y % 100 # 0 \/ y % 400 = 0)

\* days of month m (0 is January) of year y
daysInMonth(y, m) ==
    IF m = 1 THEN (IF isLeap(y) THEN 29 ELSE 28)
    ELSE IF m \in {3, 5, 8, 10} THEN 30 ELSE 31

\* the day number of the d-th day of month m of year y, counted from 2023-01-01;
\* as in the Date constructor and setDate, m and d may run past their ranges
dayNumber(y, m, d) ==
    LET yy == y + (m \div 12)
        mm == m % 12
    IN  sumSeq([k \in 1..(yy - 2023) |-> IF isLeap(2023 + k - 1) THEN 366 ELSE 365])
        + sumSeq([k \in 1..mm |-> daysInMonth(yy, k - 1)])
        + d - 1

\* the calendar date of a day number: year, month (0 is January), day
civil(n) ==
    LET y == CHOOSE yy \in Years : dayNumber(yy, 0, 1) <= n /\ n < dayNumber(yy + 1, 0, 1)
        m == CHOOSE mm \in 0..11 : dayNumber(y, mm, 1) <= n /\ n < dayNumber(y, mm + 1, 1)
    IN  [y |-> y, m |-> m, d |-> n - dayNumber(y, m, 1) + 1]

localDay(t, tz) == (t + tz) \div 24

getFullYear(t, tz) == civil(localDay(t, tz)).y
getMonth(t, tz) == civil(localDay(t, tz)).m
getDate(t, tz) == civil(localDay(t, tz)).d
\* 0 is Sunday
getDay(t, tz) == localDay(t, tz) % 7

\* Date.prototype.setDate(n): the n-th day of the local month, the local time of
\* day kept
setDate(t, tz, n) ==
    LET c == civil(localDay(t, tz))
    IN  dayNumber(c.y, c.m, n) * 24 + ((t + tz) % 24) - tz

\* new Date(y, m, d): local midnight
newDate(y, m, d, tz) == dayNumber(y, m, d) * 24 - tz

\* toISOString().split('T')[0]
toISODate(t) ==
    LET c == civil(t \div 24)
    IN  <<c.y, c.m + 1, c.d>>

\* DateUtils.getTodayString, today being new Date()
getTodayString(today) == toISODate(today)

\* DateUtils.getWeekRange, today being new Date()
getWeekRange(today, tz) ==
    LET start == setDate(today, tz, getDate(today, tz) - getDay(today, tz))
        end == setDate(today, tz, getDate(start, tz) + 6)
    IN  [start |-> toISODate(start), end |-> toISODate(end)]

\* DateUtils.getMonthRange, today being new Date()
getMonthRange(today, tz) ==
    LET start == newDate(getFullYear(today, tz), getMonth(today, tz), 1, tz)
        end == newDate(getFullYear(today, tz), getMonth(today, tz) + 1, 0, tz)
    IN  [start |-> toISODate(start), end |-> toISODate(end)]

\* clock readings from 2023-12-20 to 2024-03-10, early, at noon and late in the
\* UTC day
DateNows == {day * 24 + hour : day \in 353..434, hour \in {1, 12, 22}}

\* zones west of, at and east of UTC
DateZones == {-5, 0, 5}

\* the clock of this specification is the instant that new Date() reads
DateInit ==
    /\ data = EmptyData
    /\ stored = [k \in Keys |-> NoItem]
    /\ user = NoUser
    /\ view = "dashboard"
    /\ last = NoneRan
    /\ pending = <<>>
    /\ clock \in DateNows

weekRange(tz) ==
    /\ last' = [op |-> "getWeekRange", arg |-> [today |-> clock, tz |-> tz], now |-> clock,
                pre |-> 0, out |-> getWeekRange(clock, tz)]
    /\ UNCHANGED <<data, stored, user, view, clock, pending>>

monthRange(tz) ==
    /\ last' = [op |-> "getMonthRange", arg |-> [today |-> clock, tz |-> tz], now |-> clock,
                pre |-> 0, out |-> getMonthRange(clock, tz)]
    /\ UNCHANGED <<data, stored, user, view, clock, pending>>

\* the three ranges getStats asks DateUtils for
statsRanges(tz) ==
    /\ last' = [op |-> "getStats", arg |-> [today |-> clock, tz |-> tz], now |-> clock,
                pre |-> 0,
                out |-> [today |-> getTodayString(clock),
                         week |-> getWeekRange(clock, tz),
                         month |-> getMonthRange(clock, tz)]]
    /\ UNCHANGED <<data, stored, user, view, clock, pending>>

DateNext ==
    \/ \E tz \in DateZones : weekRange(tz)
    \/ \E tz \in DateZones : monthRange(tz)
    \/ \E tz \in DateZones : statsRanges(tz)

DateSpec == DateInit /\ [][DateNext]_vars

(***************************************************************************)
(* Storage.exportData (page.tsx): the file handed to the browser, its name *)
(* and its content.  A business name is a sequence of characters.          *)
(***************************************************************************)
\* String.prototype.replace(/\s+/g, '-'): every run of white space becomes
\* one hyphen; inRun is whether the character before was white space
RECURSIVE replaceSpaces(_, _)
replaceSpaces(name, inRun) ==
    IF name = <<>> THEN <<>>
    ELSE IF Head(name) = " "
    THEN (IF inRun THEN <<>> ELSE <<"-">>) \o replaceSpaces(Tail(name), TRUE)
    ELSE <<Head(name)>> \o replaceSpaces(Tail(name), FALSE)

\* the download: a.download and the text of the Blob
exportData(d, businessName, now) ==
    [download |-> <<replaceSpaces(businessName, FALSE), "-backup-", toISODate(now), ".json">>,
     content |-> stringify(d)]

\* currentUser.businessName: 'My Business' by default
BusinessNames ==
    {<<"M", "y", " ", "B", "u", "s", "i", "n", "e", "s", "s">>,
     <<"A", "a", "b", " ", " ", "W", "a", "t", "e", "r">>}

ExportNows == {8473, 8761, 9500}

ExportInit ==
    /\ data \in [customers : SaveCustomers, deliveries : SaveDeliveries,
                 payments : SavePayments, expenses : SaveExpenses, lastSaved : {0}]
    /\ \E u \in Users :
           /\ user = u
           /\ \E entry \in {NoItem, stringify(data)} :
                  stored = [k \in Keys |-> IF k = dataKey(u) THEN entry ELSE NoItem]
    /\ view = "dashboard"
    /\ last = NoneRan
    /\ pending = <<>>
    /\ clock = 1

\* the Export button
export(businessName, now) ==
    /\ view = "dashboard"
    /\ last' = [op |-> "exportData", arg |-> businessName, now |-> now, pre |-> Pre,
                out |-> exportData(data, businessName, now)]
    /\ UNCHANGED <<data, stored, user, view, clock, pending>>

ExportNext ==
    \E businessName \in BusinessNames, now \in ExportNows : export(businessName, now)

ExportSpec == ExportInit /\ [][ExportNext]_vars

(***************************************************************************)
(* AdvancedWaterCRM (part_001): one stored entry for the data, one for the *)
(* user; a save merges into the stored snapshot, then the handler loads.   *)
(* An exception leaves a handler where it is raised; raised inside the     *)
(* mount effect it takes the component down.                               *)
(***************************************************************************)
AdvEmptyData ==
    [customers |-> <<>>, deliveries |-> <<>>, payments |-> <<>>, lastSaved |-> 0]

\* Storage.getData: { threw } when JSON.parse throws, else { threw, value }
Adv_getData(store) ==
    LET item == store[AdvDataKey]
    IN  IF item.kind = "none" THEN [threw |-> FALSE, value |-> AdvEmptyData]
        ELSE IF parses(item) THEN [threw |-> FALSE, value |-> parse(item)]
        ELSE [threw |-> TRUE]

\* Storage.saveData: { threw, store }
Adv_saveData(store, updates, now, wr) ==
    LET current == Adv_getData(store)
    IN  IF current.threw \/ ~wr
        THEN [threw |-> TRUE, store |-> store]
        ELSE [threw |-> FALSE,
              store |-> [store EXCEPT ![AdvDataKey] =
                            stringify(spread(spread(current.value, updates),
                                             [lastSaved |-> now]))]]

\* Storage.getCurrentUser: { threw }, or { threw, isNull } with the value when
\* it is not null
Adv_getCurrentUser(store) ==
    LET item == store[AdvUserKey]
    IN  IF item.kind = "none" THEN [threw |-> FALSE, isNull |-> TRUE]
        ELSE IF parses(item)
        THEN [threw |-> FALSE, isNull |-> FALSE, value |-> parse(item)]
        ELSE [threw |-> TRUE]

LoginForms ==
    {[businessName |-> "shop", phone |-> "0300"],
     [businessName |-> "", phone |-> "0300"]}

AdvCustomerForms == {f \in CustomerForms : f.flatNumber \in {"a1", "A1", ""}}
AdvDeliveryForms == {f \in DeliveryForms : f.flatNumber \in {"a1", ""}}
AdvPaymentForms == {f \in PaymentForms : f.flatNumber \in {"a1", ""}}

\* the mount effect
Adv_init ==
    /\ view = "loading"
    /\ LET currentUser == Adv_getCurrentUser(stored)
           appData == Adv_getData(stored)
       IN  IF currentUser.threw
           THEN /\ view' = "crashed"
                /\ UNCHANGED <<data, user>>
                /\ Ran("init", 0, 0, "userThrew")
           ELSE IF currentUser.isNull
           THEN /\ view' = "login"
                /\ UNCHANGED <<data, user>>
                /\ Ran("init", 0, 0, "login")
           ELSE IF appData.threw
           THEN /\ view' = "crashed"
                /\ UNCHANGED <<data, user>>
                /\ Ran("init", 0, 0, "threw")
           ELSE /\ user' = currentUser.value
                /\ data' = appData.value
                /\ view' = "dashboard"
                /\ Ran("init", 0, 0, "loaded")
    /\ UNCHANGED <<stored, clock, pending>>

\* the page is loaded again: the component is constructed anew
Adv_reload ==
    /\ view # "loading"
    /\ data' = AdvEmptyData
    /\ user' = NoUser
    /\ view' = "loading"
    /\ last' = NoneRan
    /\ UNCHANGED <<stored, clock, pending>>

handleLogin(form, wr) ==
    /\ view = "login"
    /\ IF form.businessName = "" \/ form.phone = ""
       THEN /\ UNCHANGED <<stored, user, view>>
            /\ Ran("handleLogin", form, 0, "missing")
       ELSE IF ~wr
       THEN /\ UNCHANGED <<stored, user, view>>
            /\ Ran("handleLogin", form, 0, "writeThrew")
       ELSE /\ stored' = [stored EXCEPT ![AdvUserKey] = stringify(form)]
            /\ user' = form
            /\ view' = "dashboard"
            /\ Ran("handleLogin", form, 0, "loggedIn")
    /\ UNCHANGED <<data, clock, pending>>

handleLogout(confirmed) ==
    /\ view = "dashboard"
    /\ IF confirmed
       THEN /\ stored' = [stored EXCEPT ![AdvUserKey] = NoItem]
            /\ user' = NoUser
            /\ view' = "login"
            /\ Ran("handleLogout", 0, 0, "loggedOut")
       ELSE /\ UNCHANGED <<stored, user, view>>
            /\ Ran("handleLogout", 0, 0, "cancelled")
    /\ UNCHANGED <<data, clock, pending>>

\* Storage.saveData(updates) followed by loadData()
Adv_saveAndLoad(updates, wr) ==
    \E stamp \in SaveStamps :
        LET r == Adv_saveData(stored, updates, stamp, wr)
        IN  IF r.threw
            THEN UNCHANGED <<data, stored>>
            ELSE /\ stored' = r.store
                 /\ data' = Adv_getData(r.store).value

Adv_saveOutcome(wr) ==
    IF Adv_getData(stored).threw THEN "threw"
    ELSE IF wr THEN "saved" ELSE "writeThrew"

Adv_addCustomer(form) ==
    /\ view = "dashboard"
    /\ LET missing == form.flatNumber = "" \/ form.name = ""
           exists ==
               \E i \in 1..Len(data.customers) :
                   toLowerCase(data.customers[i].flatNumber)
                       = toLowerCase(form.flatNumber)
           newCust == [id |-> clock, flatNumber |-> form.flatNumber,
                       name |-> form.name, rate |-> form.rate]
       IN  IF missing \/ exists
           THEN /\ UNCHANGED <<data, stored>>
                /\ Ran("addCustomer", form, 0, IF missing THEN "missing" ELSE "exists")
           ELSE /\ Len(data.customers) < MaxCustomers
                /\ \E wr \in BOOLEAN :
                       /\ Adv_saveAndLoad([customers |-> Append(data.customers, newCust)], wr)
                       /\ Ran("addCustomer", form, clock, Adv_saveOutcome(wr))
    /\ UNCHANGED <<user, view, clock, pending>>

Adv_deleteCustomer(id, confirmed) ==
    /\ view = "dashboard"
    /\ LET customer == find(data.customers, "id", id, NotFound)
       IN  IF ~confirmed
           THEN /\ UNCHANGED <<data, stored>>
                /\ Ran("deleteCustomer", id, 0, "cancelled")
           ELSE IF customer = NotFound
           THEN /\ UNCHANGED <<data, stored>>
                /\ Ran("deleteCustomer", id, 0, "notFound")
           ELSE \E wr \in BOOLEAN :
                    /\ Adv_saveAndLoad(
                           [customers |->
                                SelectSeq(data.customers, LAMBDA c : c.id # id),
                            deliveries |->
                                SelectSeq(data.deliveries,
                                          LAMBDA d : d.flatNumber # customer.flatNumber),
                            payments |->
                                SelectSeq(data.payments,
                                          LAMBDA p : p.flatNumber # customer.flatNumber)],
                           wr)
                    /\ Ran("deleteCustomer", id, 0, Adv_saveOutcome(wr))
    /\ UNCHANGED <<user, view, clock, pending>>

Adv_addDelivery(form) ==
    /\ view = "dashboard"
    /\ LET customer ==
               find(data.customers, "flatNumber", form.flatNumber, NotFound)
           newDel == [id |-> clock, date |-> form.date, flatNumber |-> form.flatNumber,
                      customerName |-> customer.name, delivered |-> form.delivered,
                      collected |-> form.collected,
                      amount |-> form.delivered * customer.rate]
       IN  IF form.date = NoDate \/ form.flatNumber = "" \/ form.delivered = 0
           THEN /\ UNCHANGED <<data, stored>>
                /\ Ran("addDelivery", form, 0, "missing")
           ELSE IF customer = NotFound
           THEN /\ UNCHANGED <<data, stored>>
                /\ Ran("addDelivery", form, 0, "notFound")
           ELSE /\ Len(data.deliveries) < MaxDeliveries
                /\ \E wr \in BOOLEAN :
                       /\ Adv_saveAndLoad([deliveries |-> Append(data.deliveries, newDel)], wr)
                       /\ Ran("addDelivery", form, clock, Adv_saveOutcome(wr))
    /\ UNCHANGED <<user, view, clock, pending>>

Adv_deleteDelivery(id, confirmed) ==
    /\ view = "dashboard"
    /\ IF ~confirmed
       THEN /\ UNCHANGED <<data, stored>>
            /\ Ran("deleteDelivery", id, 0, "cancelled")
       ELSE \E wr \in BOOLEAN :
                /\ Adv_saveAndLoad(
                       [deliveries |-> SelectSeq(data.deliveries, LAMBDA d : d.id # id)], wr)
                /\ Ran("deleteDelivery", id, 0, Adv_saveOutcome(wr))
    /\ UNCHANGED <<user, view, clock, pending>>

Adv_addPayment(form) ==
    /\ view = "dashboard"
    /\ LET customer ==
               find(data.customers, "flatNumber", form.flatNumber, NotFound)
           outstanding ==
               getCustomerOutstanding(form.flatNumber, data.deliveries, data.payments)
           remaining == outstanding - form.amountReceived
           newPay == [id |-> clock, date |-> form.date, flatNumber |-> form.flatNumber,
                      customerName |-> customer.name, totalBill |-> outstanding,
                      amountReceived |-> form.amountReceived,
                      remainingBalance |-> IF remaining > 0 THEN remaining ELSE 0,
                      status |-> paymentStatus(form.amountReceived, outstanding)]
       IN  IF form.date = NoDate \/ form.flatNumber = "" \/ form.amountReceived = 0
           THEN /\ UNCHANGED <<data, stored>>
                /\ Ran("addPayment", form, 0, "missing")
           ELSE IF customer = NotFound
           THEN /\ UNCHANGED <<data, stored>>
                /\ Ran("addPayment", form, 0, "notFound")
           ELSE /\ Len(data.payments) < MaxPayments
                /\ \E wr \in BOOLEAN :
                       /\ Adv_saveAndLoad([payments |-> Append(data.payments, newPay)], wr)
                       /\ Ran("addPayment", form, clock, Adv_saveOutcome(wr))
    /\ UNCHANGED <<user, view, clock, pending>>

Adv_deletePayment(id, confirmed) ==
    /\ view = "dashboard"
    /\ IF ~confirmed
       THEN /\ UNCHANGED <<data, stored>>
            /\ Ran("deletePayment", id, 0, "cancelled")
       ELSE \E wr \in BOOLEAN :
                /\ Adv_saveAndLoad(
                       [payments |-> SelectSeq(data.payments, LAMBDA p : p.id # id)], wr)
                /\ Ran("deletePayment", id, 0, Adv_saveOutcome(wr))
    /\ UNCHANGED <<user, view, clock, pending>>

\* the component as constructed, over what a browser may hold in the two entries
AdvInit ==
    /\ data = AdvEmptyData
    /\ \E d \in {NoItem, Corrupt},
          u \in {NoItem, Corrupt} \cup {stringify(f) : f \in {g \in LoginForms : g.businessName # ""}} :
           stored = [k \in Keys |-> IF k = AdvDataKey THEN d
                                    ELSE IF k = AdvUserKey THEN u ELSE NoItem]
    /\ user = NoUser
    /\ view = "loading"
    /\ last = NoneRan
    /\ pending = <<>>
    /\ clock = 1

AdvNext ==
    \/ tick
    \/ Adv_init
    \/ Adv_reload
    \/ \E form \in LoginForms, wr \in BOOLEAN : handleLogin(form, wr)
    \/ \E confirmed \in BOOLEAN : handleLogout(confirmed)
    \/ \E form \in AdvCustomerForms : Adv_addCustomer(form)
    \/ \E id \in Times, confirmed \in BOOLEAN : Adv_deleteCustomer(id, confirmed)
    \/ \E form \in AdvDeliveryForms : Adv_addDelivery(form)
    \/ \E id \in Times, confirmed \in BOOLEAN : Adv_deleteDelivery(id, confirmed)
    \/ \E form \in AdvPaymentForms : Adv_addPayment(form)
    \/ \E id \in Times, confirmed \in BOOLEAN : Adv_deletePayment(id, confirmed)

AdvSpec == AdvInit /\ [][AdvNext]_vars

(***************************************************************************)
(* AdvancedWaterCRM over a fresh browser with two businesses that log in   *)
(* and out on it.                                                          *)
(***************************************************************************)
Identities ==
    {[businessName |-> "shop", phone |-> "0300"],
     [businessName |-> "store", phone |-> "0301"]}

SessionLoginForms == Identities \cup {f \in LoginForms : f.businessName = ""}

SessionInit ==
    /\ data = AdvEmptyData
    /\ stored = [k \in Keys |-> NoItem]
    /\ user = NoUser
    /\ view = "loading"
    /\ last = NoneRan
    /\ pending = <<>>
    /\ clock = 1

SessionNext ==
    \/ tick
    \/ Adv_init
    \/ Adv_reload
    \/ \E form \in SessionLoginForms, wr \in BOOLEAN : handleLogin(form, wr)
    \/ \E confirmed \in BOOLEAN : handleLogout(confirmed)
    \/ \E form \in AdvCustomerForms : Adv_addCustomer(form)
    \/ \E id \in Times, confirmed \in BOOLEAN : Adv_deleteCustomer(id, confirmed)

SessionSpec == SessionInit /\ [][SessionNext]_vars

(***************************************************************************)
(* Vocabulary of the properties, defined apart from the model above.       *)
(***************************************************************************)
\* the sum of vals[i] over the indices i in S
RECURSIVE SumIdx(_, _)
SumIdx(vals, S) ==
    IF S = {} THEN 0
    ELSE LET i == CHOOSE j \in S : TRUE
         IN  vals[i] + SumIdx(vals, S \ {i})

\* what flat F owes in d: billed minus paid, by exact flat number
Owed(F, d) ==
    SumIdx([i \in 1..Len(d.deliveries) |-> d.deliveries[i].amount],
           {i \in 1..Len(d.deliveries) : d.deliveries[i].flatNumber = F})
    - SumIdx([i \in 1..Len(d.payments) |-> d.payments[i].amountReceived],
             {i \in 1..Len(d.payments) : d.payments[i].flatNumber = F})

\* two flat numbers that differ at most in the case of their letters
SameIgnoringCase(a, b) ==
    \/ a = b
    \/ {a, b} = {"a1", "A1"}
    \/ {a, b} = {"b2", "B2"}

\* seq without its i-th element
RemoveAt(seq, i) ==
    [k \in 1..(Len(seq) - 1) |-> IF k < i THEN seq[k] ELSE seq[k + 1]]

\* the elements of seq at the indices in S, in their order
RECURSIVE KeepIdx(_, _)
KeepIdx(seq, S) ==
    IF seq = <<>> THEN <<>>
    ELSE LET n == Len(seq)
             front == KeepIdx(SubSeq(seq, 1, n - 1), S)
         IN  IF n \in S THEN Append(front, seq[n]) ELSE front

\* a is b with some elements removed, the others unchanged and in order
IsSubSeq(a, b) ==
    \E S \in SUBSET (1..Len(b)) : a = KeepIdx(b, S)

Handlers ==
    {"addCustomer", "deleteCustomer", "addDelivery", "deleteDelivery",
     "addPayment", "deletePayment", "addExpense", "deleteExpense"}

Saved(op) == last.op = op /\ last.out = "saved"

\* the record a saved add handler appended
Added(coll) == coll[Len(coll)]

(***************************************************************************)
(* C1.  getCustomerOutstanding(F, deliveries, payments) is the sum of      *)
(* amount over the deliveries whose flatNumber is exactly F minus the sum  *)
(* of amountReceived over the payments whose flatNumber is exactly F; it   *)
(* is not floored, and it is negative when more was paid than billed.      *)
(***************************************************************************)
Billed(F, d) ==
    SumIdx([i \in 1..Len(d.deliveries) |-> d.deliveries[i].amount],
           {i \in 1..Len(d.deliveries) : d.deliveries[i].flatNumber = F})

Paid(F, d) ==
    SumIdx([i \in 1..Len(d.payments) |-> d.payments[i].amountReceived],
           {i \in 1..Len(d.payments) : d.payments[i].flatNumber = F})

C1_OutstandingIsBilledMinusPaid ==
    last.op = "getCustomerOutstanding" =>
        /\ last.out = Billed(last.arg, data) - Paid(last.arg, data)
        /\ Paid(last.arg, data) > Billed(last.arg, data) => last.out < 0

\* an overpaid flat, with a delivery and a payment of a flat number that differs
\* from it only in case
C1_Witness ==
    /\ last.op = "getCustomerOutstanding"
    /\ last.out < 0
    /\ Billed(last.arg, data) > 0
    /\ \E i \in 1..Len(data.deliveries) :
           /\ data.deliveries[i].flatNumber # last.arg
           /\ SameIgnoringCase(data.deliveries[i].flatNumber, last.arg)
    /\ \E i \in 1..Len(data.payments) :
           /\ data.payments[i].flatNumber # last.arg
           /\ SameIgnoringCase(data.payments[i].flatNumber, last.arg)

(***************************************************************************)
(* C2.  deleteCustomer(id), confirmed and with the customer present,       *)
(* removes that one customer and exactly the deliveries and payments of    *)
(* its flat number; every other customer, the deliveries and payments of   *)
(* other flat numbers and all expenses stay as they were, in order.        *)
(***************************************************************************)
C2_DeleteCustomerExact ==
    Saved("deleteCustomer") =>
        \E i \in 1..Len(last.pre.data.customers) :
            LET pre == last.pre.data
                c == pre.customers[i]
            IN  /\ c.id = last.arg
                /\ data.customers = RemoveAt(pre.customers, i)
                /\ data.deliveries =
                       SelectSeq(pre.deliveries,
                                 LAMBDA d : d.flatNumber # c.flatNumber)
                /\ data.payments =
                       SelectSeq(pre.payments,
                                 LAMBDA q : q.flatNumber # c.flatNumber)
                /\ data.expenses = pre.expenses

(***************************************************************************)
(* C3.  No two customers have flat numbers that are equal when compared    *)
(* case-insensitively, in memory and in the stored entry.                  *)
(***************************************************************************)
UniqueFlats(customers) ==
    \A i, j \in 1..Len(customers) :
        i # j => ~SameIgnoringCase(customers[i].flatNumber, customers[j].flatNumber)

C3_FlatNumbersUnique ==
    /\ UniqueFlats(data.customers)
    /\ \A k \in Keys : parses(stored[k]) => UniqueFlats(parse(stored[k]).customers)

\* a customer was refused because its flat number differs from a present one
\* only in case
C3_Witness ==
    /\ last.op = "addCustomer"
    /\ last.out = "exists"
    /\ \E i \in 1..Len(data.customers) :
           /\ data.customers[i].flatNumber # last.arg.flatNumber
           /\ SameIgnoringCase(data.customers[i].flatNumber, last.arg.flatNumber)

(***************************************************************************)
(* C4.  The status of a payment addPayment creates is "full" exactly when  *)
(* amountReceived >= outstanding and outstanding > 0, "partial" exactly    *)
(* when 0 < amountReceived < outstanding, and "pending" in every other     *)
(* case, outstanding being the customer's balance before the payment.      *)
(***************************************************************************)
C4_PaymentStatus ==
    Saved("addPayment") =>
        LET q == Added(data.payments)
            a == last.arg.amountReceived
            outstanding == Owed(last.arg.flatNumber, last.pre.data)
            full == a >= outstanding /\ outstanding > 0
            partial == 0 < a /\ a < outstanding
        IN  /\ q.status = "full" <=> full
            /\ q.status = "partial" <=> partial
            /\ q.status = "pending" <=> ~full /\ ~partial
            /\ outstanding <= 0 => q.status = "pending"

\* a part payment, then a payment of at least the rest
C4_Witness ==
    /\ Saved("addPayment")
    /\ Len(data.payments) = 2
    /\ data.payments[1].status = "partial"
    /\ data.payments[2].status = "full"
    /\ Owed(last.arg.flatNumber, data) = 0

(***************************************************************************)
(* C5.  A payment addPayment creates stores totalBill = the customer's     *)
(* outstanding balance over the deliveries and payments that existed       *)
(* before it, and remainingBalance = max(0, totalBill - amountReceived);   *)
(* no payment has a negative remainingBalance.                             *)
(***************************************************************************)
C5_PaymentSnapshot ==
    /\ Saved("addPayment") =>
           LET q == Added(data.payments)
               due == q.totalBill - q.amountReceived
           IN  /\ q.amountReceived = last.arg.amountReceived
               /\ q.totalBill = Owed(last.arg.flatNumber, last.pre.data)
               /\ q.remainingBalance = IF due > 0 THEN due ELSE 0
    /\ \A i \in 1..Len(data.payments) : data.payments[i].remainingBalance >= 0

\* a payment larger than the balance: the difference is negative, stored as 0
C5_Witness ==
    /\ Saved("addPayment")
    /\ Added(data.payments).totalBill > 0
    /\ Added(data.payments).amountReceived > Added(data.payments).totalBill
    /\ Added(data.payments).remainingBalance = 0

(***************************************************************************)
(* C6.  After addPayment for flat F with amount a has saved, F owes what   *)
(* it owed before minus a and every other flat owes what it owed before;   *)
(* paying exactly a positive balance leaves 0 owed and a payment with      *)
(* totalBill = the prior balance, remainingBalance 0 and status "full".    *)
(***************************************************************************)
C6_OutstandingAfterPayment ==
    Saved("addPayment") =>
        LET F == last.arg.flatNumber
            a == last.arg.amountReceived
            before == Owed(F, last.pre.data)
            q == Added(data.payments)
        IN  /\ Owed(F, data) = before - a
            /\ getCustomerOutstanding(F, data.deliveries, data.payments) = before - a
            /\ \A G \in {"a1", "A1", "b2", "B2"} \ {F} :
                   Owed(G, data) = Owed(G, last.pre.data)
            /\ (a = before /\ before > 0) =>
                   /\ Owed(F, data) = 0
                   /\ q.totalBill = before
                   /\ q.remainingBalance = 0
                   /\ q.status = "full"

\* rate 30, a delivery of 10, a payment of 100, then a payment of 200
C6_Witness ==
    /\ Saved("addPayment")
    /\ \E i \in 1..Len(data.customers) :
           data.customers[i].flatNumber = "a1" /\ data.customers[i].rate = 30
    /\ Len(data.deliveries) = 1
    /\ data.deliveries[1].delivered = 10
    /\ data.deliveries[1].amount = 300
    /\ Len(data.payments) = 2
    /\ data.payments[1].amountReceived = 100
    /\ data.payments[2].amountReceived = 200
    /\ data.payments[2].totalBill = 200
    /\ data.payments[2].remainingBalance = 0
    /\ data.payments[2].status = "full"
    /\ getCustomerOutstanding("a1", data.deliveries, data.payments) = 0

(***************************************************************************)
(* C7.  No handler changes a payment that exists: after any add or delete  *)
(* handler the payments are those before it, some of them possibly         *)
(* removed, the others unchanged and in order, plus the one addPayment     *)
(* appended.                                                               *)
(***************************************************************************)
C7_PaymentsFrozen ==
    last.op \in Handlers =>
        LET before == last.pre.data.payments
        IN  IF Saved("addPayment")
            THEN SubSeq(data.payments, 1, Len(data.payments) - 1) = before
            ELSE IsSubSeq(data.payments, before)

\* a delivery was deleted after a payment that had counted it: the payment
\* keeps the balance it saw
C7_Witness ==
    /\ Saved("deleteDelivery")
    /\ Len(data.deliveries) < Len(last.pre.data.deliveries)
    /\ \E i \in 1..Len(data.payments) :
           /\ data.payments[i].status = "partial"
           /\ data.payments[i].totalBill
                  > Owed(data.payments[i].flatNumber, data)
                    + data.payments[i].amountReceived
    /\ data.payments = last.pre.data.payments

(***************************************************************************)
(* C8.  A delivery addDelivery creates stores amount = delivered x the     *)
(* rate, and customerName = the name, of the customer with that flat       *)
(* number at that moment; no handler changes a delivery that exists.       *)
(***************************************************************************)
C8_DeliveryFrozen ==
    /\ Saved("addDelivery") =>
           LET d == Added(data.deliveries)
               pre == last.pre.data
           IN  /\ SubSeq(data.deliveries, 1, Len(data.deliveries) - 1)
                      = pre.deliveries
               /\ d.delivered = last.arg.delivered
               /\ \E i \in 1..Len(pre.customers) :
                      /\ pre.customers[i].flatNumber = d.flatNumber
                      /\ d.amount = d.delivered * pre.customers[i].rate
                      /\ d.customerName = pre.customers[i].name
    /\ (last.op \in Handlers /\ ~Saved("addDelivery")) =>
           IsSubSeq(data.deliveries, last.pre.data.deliveries)

\* a delivery at a rate other than the form's default, kept through a later
\* handler
C8_Witness ==
    /\ Saved("addPayment")
    /\ \E i \in 1..Len(data.deliveries) :
           /\ data.deliveries[i].amount = 100
           /\ data.deliveries[i].delivered = 5
           /\ data.deliveries[i].customerName = "Sara"
    /\ data.deliveries = last.pre.data.deliveries

(***************************************************************************)
(* C9.  getDateRangeStats(deliveries, payments, expenses, start, end)      *)
(* counts and sums exactly the records dated from start to end, both       *)
(* bounds included: deliveries is their number, bottlesDelivered, revenue  *)
(* and empties are the sums of delivered, amount and collected over the    *)
(* deliveries, collected the sum of amountReceived over the payments,      *)
(* expenses the sum of amount over the expenses, and profit is collected   *)
(* minus expenses; with no record in the range every field is 0.           *)
(***************************************************************************)
\* the day a date string names
DayOf(date) == 10 * date[1] + date[2]

\* the indices of the records of coll dated from start to end
Within(coll, start, end) ==
    {i \in 1..Len(coll) : DayOf(start) <= DayOf(coll[i].date)
                          /\ DayOf(coll[i].date) <= DayOf(end)}

C9_DateRangeStats ==
    last.op = "getDateRangeStats" =>
        LET start == last.arg[1]
            end == last.arg[2]
            D == Within(data.deliveries, start, end)
            P == Within(data.payments, start, end)
            E == Within(data.expenses, start, end)
            collected ==
                SumIdx([i \in 1..Len(data.payments) |-> data.payments[i].amountReceived], P)
            spent ==
                SumIdx([i \in 1..Len(data.expenses) |-> data.expenses[i].amount], E)
        IN  /\ last.out.deliveries = Cardinality(D)
            /\ last.out.bottlesDelivered =
                   SumIdx([i \in 1..Len(data.deliveries) |-> data.deliveries[i].delivered], D)
            /\ last.out.revenue =
                   SumIdx([i \in 1..Len(data.deliveries) |-> data.deliveries[i].amount], D)
            /\ last.out.empties =
                   SumIdx([i \in 1..Len(data.deliveries) |-> data.deliveries[i].collected], D)
            /\ last.out.collected = collected
            /\ last.out.expenses = spent
            /\ last.out.profit = collected - spent
            /\ (D = {} /\ P = {} /\ E = {}) =>
                   \A f \in DOMAIN last.out : last.out[f] = 0

\* a range with a delivery on its first day and a payment on its last day, a
\* record outside it, and revenue that differs from what was collected
C9_Witness ==
    /\ last.op = "getDateRangeStats"
    /\ last.arg[1] # last.arg[2]
    /\ \E i \in 1..Len(data.deliveries) : data.deliveries[i].date = last.arg[1]
    /\ \E i \in 1..Len(data.payments) : data.payments[i].date = last.arg[2]
    /\ \E i \in 1..Len(data.deliveries) :
           DayOf(data.deliveries[i].date) > DayOf(last.arg[2])
    /\ Within(data.expenses, last.arg[1], last.arg[2]) # {}
    /\ last.out.revenue # last.out.collected
    /\ last.out.profit = last.out.collected - last.out.expenses
    /\ last.out.profit # last.out.revenue - last.out.expenses

(***************************************************************************)
(* C10.  Loading the stored data never raises: with nothing stored under   *)
(* the key, or with content that cannot be parsed, the load gives          *)
(* collections that are all present and empty, and the stored entry stays  *)
(* as it was.                                                              *)
(***************************************************************************)
C10_LoadNeverRaises ==
    /\ last.out # "threw"
    /\ (last.op = "init" /\ last.out = "loaded"
        /\ ~parses(last.pre.stored[AdvDataKey])) =>
           /\ data.customers = <<>>
           /\ data.deliveries = <<>>
           /\ data.payments = <<>>
           /\ stored[AdvDataKey] = last.pre.stored[AdvDataKey]

(***************************************************************************)
(* C11.  When the write succeeds, saveData persists and returns one and    *)
(* the same snapshot: every collection the updates name has the value the  *)
(* updates give, every other collection has its value from currentData,    *)
(* and lastSaved is the time of the save.                                  *)
(***************************************************************************)
Collections == {"customers", "deliveries", "payments", "expenses"}

C11_SaveMerges ==
    (last.op = "saveAndReload" /\ last.out = "saved") =>
        /\ stored[<<"crm", user>>].kind = "json"
        /\ stored[<<"crm", user>>].value = data
        /\ \A k \in Collections :
               data[k] = IF k \in DOMAIN last.arg THEN last.arg[k]
                         ELSE last.pre.data[k]
        /\ data.lastSaved = last.now
        /\ DOMAIN data = Collections \cup {"lastSaved"}

\* a save that names the deliveries alone and changes them, over customers that
\* stay, at a time other than that of the save before it
C11_Witness ==
    /\ last.op = "saveAndReload"
    /\ last.out = "saved"
    /\ DOMAIN last.arg = {"deliveries"}
    /\ last.arg.deliveries # last.pre.data.deliveries
    /\ last.pre.data.customers # <<>>
    /\ last.pre.data.lastSaved # 0
    /\ last.pre.data.lastSaved # last.now

FormKept == last.out \notin {"cancelled", "writeFailed", "noUser"}

UnknownFlat(F, customers) ==
    \A i \in 1..Len(customers) : customers[i].flatNumber # F

RejectedAdd ==
    LET f == last.arg
        pre == last.pre.data
    IN  CASE last.op = "addCustomer" ->
                 \/ f.flatNumber = ""
                 \/ f.name = ""
                 \/ \E i \in 1..Len(pre.customers) :
                        SameIgnoringCase(pre.customers[i].flatNumber, f.flatNumber)
          [] last.op = "addDelivery" ->
                 \/ f.date = <<>>
                 \/ f.flatNumber = ""
                 \/ f.delivered = 0
                 \/ UnknownFlat(f.flatNumber, pre.customers)
          [] last.op = "addPayment" ->
                 \/ f.date = <<>>
                 \/ f.flatNumber = ""
                 \/ f.amountReceived = 0
                 \/ UnknownFlat(f.flatNumber, pre.customers)
          [] last.op = "addExpense" ->
                 \/ f.date = <<>>
                 \/ f.description = ""
                 \/ f.amount = 0
          [] OTHER -> FALSE

C13_RejectedAddChangesNothing ==
    (FormKept /\ RejectedAdd) =>
        /\ last.out # "saved"
        /\ data = last.pre.data
        /\ stored = last.pre.stored

\* a delivery for a flat number that no customer has, though one has it in
\* another case, with data in memory and in the stored entry
C13_Witness ==
    /\ last.op = "addDelivery"
    /\ FormKept
    /\ last.arg.date # <<>>
    /\ last.arg.delivered # 0
    /\ UnknownFlat(last.arg.flatNumber, data.customers)
    /\ \E i \in 1..Len(data.customers) :
           SameIgnoringCase(data.customers[i].flatNumber, last.arg.flatNumber)
    /\ stored[<<"crm", user>>].kind = "json"
    /\ data = last.pre.data

(***************************************************************************)
(* C14.  Deleting a customer is all or nothing: after deleteCustomer, in   *)
(* memory and in the stored entry, every customer there was is either      *)
(* still there with the deliveries and payments of its flat number as      *)
(* they were, or gone with no delivery or payment of its flat number       *)
(* left, also when the save fails.                                         *)
(***************************************************************************)
OfFlat(coll, F) == SelectSeq(coll, LAMBDA r : r.flatNumber = F)

AllOrNothing(c, pre, post) ==
    LET present == \E i \in 1..Len(post.customers) : post.customers[i] = c
    IN  IF present
        THEN /\ OfFlat(post.deliveries, c.flatNumber) = OfFlat(pre.deliveries, c.flatNumber)
             /\ OfFlat(post.payments, c.flatNumber) = OfFlat(pre.payments, c.flatNumber)
        ELSE /\ OfFlat(post.deliveries, c.flatNumber) = <<>>
             /\ OfFlat(post.payments, c.flatNumber) = <<>>

C14_DeleteAllOrNothing ==
    last.op = "deleteCustomer" =>
        \A i \in 1..Len(last.pre.data.customers) :
            LET c == last.pre.data.customers[i]
            IN  /\ AllOrNothing(c, last.pre.data, data)
                /\ stored[<<"crm", user>>].kind = "json" =>
                       AllOrNothing(c, last.pre.data, stored[<<"crm", user>>].value)

(***************************************************************************)
(* C15.  getOverdueDues lists, in the order of the customers, one entry    *)
(* for every customer that owes more than 0 and none for a customer that   *)
(* owes 0 or less, however old its deliveries are; the outstanding of an   *)
(* entry is what that customer owes.                                       *)
(***************************************************************************)
C15_DuesListDebtors ==
    last.op = "getOverdueDues" =>
        LET debtors ==
                KeepIdx(data.customers,
                        {i \in 1..Len(data.customers) :
                             Owed(data.customers[i].flatNumber, data) > 0})
        IN  /\ Len(last.out) = Len(debtors)
            /\ \A k \in 1..Len(debtors) :
                   /\ last.out[k].customer = debtors[k]
                   /\ last.out[k].outstanding = Owed(debtors[k].flatNumber, data)
                   /\ last.out[k].outstanding
                          = getCustomerOutstanding(debtors[k].flatNumber,
                                                   data.deliveries, data.payments)

\* two customers with deliveries of the same day, 30 days and more before now:
\* the one that paid is left out, the one that owes is listed
C15_Witness ==
    /\ last.op = "getOverdueDues"
    /\ Len(data.customers) = 2
    /\ Len(last.out) = 1
    /\ last.out[1].customer.flatNumber = "a1"
    /\ last.out[1].isOverdue
    /\ Owed("b2", data) = 0
    /\ \E i \in 1..Len(data.deliveries) :
           /\ data.deliveries[i].flatNumber = "b2"
           /\ data.deliveries[i].date = last.out[1].lastDeliveryDate

(***************************************************************************)
(* C16.  In every entry of getOverdueDues, lastDeliveryDate is the latest  *)
(* date among the customer's deliveries, daysPending is the number of      *)
(* whole days from the start of that date to now, and isOverdue is true    *)
(* exactly when that is more than 30 days; a customer whose only delivery  *)
(* is dated 40 days before now and who owes money has daysPending 40 and   *)
(* isOverdue true.                                                         *)
(***************************************************************************)
\* half days from the start of the day a date names to the clock reading now
HalfDaysSince(date, now) == now - 2 * DayOf(date)

C16_DuesAges ==
    last.op = "getOverdueDues" =>
        \A k \in 1..Len(last.out) :
            LET e == last.out[k]
                own == {i \in 1..Len(data.deliveries) :
                            data.deliveries[i].flatNumber = e.customer.flatNumber}
                age == HalfDaysSince(e.lastDeliveryDate, last.now)
            IN  /\ own # {}
                /\ \E i \in own : data.deliveries[i].date = e.lastDeliveryDate
                /\ \A i \in own : DayOf(data.deliveries[i].date) <= DayOf(e.lastDeliveryDate)
                /\ 2 * e.daysPending <= age
                /\ age < 2 * (e.daysPending + 1)
                /\ e.isOverdue <=> age > 2 * 30
                /\ (own = {CHOOSE i \in own : TRUE} /\ age \div 2 = 40) =>
                       e.daysPending = 40 /\ e.isOverdue

\* the only delivery of a customer that owes money is dated 40 days before now
C16_Witness ==
    /\ last.op = "getOverdueDues"
    /\ \E k \in 1..Len(last.out) :
           /\ Cardinality({i \in 1..Len(data.deliveries) :
                               data.deliveries[i].flatNumber
                                   = last.out[k].customer.flatNumber}) = 1
           /\ DayOf(last.out[k].lastDeliveryDate) + 40 = last.now \div 2
           /\ last.out[k].daysPending = 40
           /\ last.out[k].isOverdue

(***************************************************************************)
(* C17.  The collection rate the reports show is totalCollected /          *)
(* totalRevenue x 100 when totalRevenue is not 0 and 0 when totalRevenue   *)
(* is 0, whatever has been collected; it is never NaN or infinite.         *)
(***************************************************************************)
C17_CollectionRate ==
    view = "dashboard" =>
        LET revenue ==
                SumIdx([i \in 1..Len(data.deliveries) |-> data.deliveries[i].amount],
                       1..Len(data.deliveries))
            collected ==
                SumIdx([i \in 1..Len(data.payments) |-> data.payments[i].amountReceived],
                       1..Len(data.payments))
            shown == collectionRate(getStats(data))
        IN  /\ shown.kind = "finite"
            /\ revenue = 0 => shown.tenths = 0
            /\ revenue # 0 =>
                   /\ 2 * revenue * shown.tenths <= 2 * 1000 * collected + revenue
                   /\ 2 * 1000 * collected + revenue < 2 * revenue * (shown.tenths + 1)

(***************************************************************************)
(* C18.  For the month range, the expense breakdown has, for each of the   *)
(* categories supplies, fuel, maintenance, salaries, rent, utilities and   *)
(* other, one entry with the sum of the amounts of that category's         *)
(* expenses in the range when that sum is not 0, and no entry when it is.  *)
(***************************************************************************)
C18_CategoryBreakdown ==
    last.op = "categoryBreakdown" =>
        \A cat \in {"supplies", "fuel", "maintenance", "salaries", "rent",
                    "utilities", "other"} :
            LET inMonth ==
                    {i \in Within(data.expenses, last.arg.start, last.arg.end) :
                         data.expenses[i].category = cat}
                sum == SumIdx([i \in 1..Len(data.expenses) |-> data.expenses[i].amount],
                              inMonth)
                rows == {k \in 1..Len(last.out) : last.out[k].category = cat}
            IN  IF sum = 0 THEN rows = {}
                ELSE /\ Cardinality(rows) = 1
                     /\ \A k \in rows : last.out[k].total = sum

(***************************************************************************)
(* The calendar of the date properties, from tables.                       *)
(***************************************************************************)
\* days before each month of a common year
MonthStarts == <<0, 31, 59, 90, 120, 151, 181, 212, 243, 273, 304, 334>>

\* the day, counted from 2023-01-01 (a Sunday), that <<YYYY, MM, DD>> names;
\* 2024 is a leap year
DayIndex(date) ==
    (CASE date[1] = 2023 -> 0 [] date[1] = 2024 -> 365 [] date[1] = 2025 -> 731)
    + MonthStarts[date[2]]
    + (IF date[1] = 2024 /\ date[2] > 2 THEN 1 ELSE 0)
    + date[3] - 1

\* a date of the calendar
IsDate(date) ==
    /\ date[1] \in 2023..2025
    /\ date[2] \in 1..12
    /\ date[3] >= 1
    /\ date[3] <= (IF date[2] = 2 THEN (IF date[1] = 2024 THEN 29 ELSE 28)
                   ELSE IF date[2] \in {4, 6, 9, 11} THEN 30 ELSE 31)

\* the local day, counted from 2023-01-01, at the instant and zone of last.arg
LocalToday == (last.arg.today + last.arg.tz) \div 24

\* the UTC day, counted from 2023-01-01, at the instant of last.arg
UtcToday == last.arg.today \div 24

(***************************************************************************)
(* C19.  getWeekRange returns as start the most recent Sunday on or before *)
(* today and as end the date six days after start, also when the week      *)
(* runs across the end of a month or of a year.  Today is read as the      *)
(* local or as the UTC date, whichever suits the result.                   *)
(***************************************************************************)
C19_WeekRange ==
    last.op = "getWeekRange" =>
        /\ IsDate(last.out.start)
        /\ IsDate(last.out.end)
        /\ DayIndex(last.out.start) % 7 = 0
        /\ \E today \in {LocalToday, UtcToday} :
              /\ DayIndex(last.out.start) <= today
              /\ today < DayIndex(last.out.start) + 7
        /\ DayIndex(last.out.end) = DayIndex(last.out.start) + 6

(***************************************************************************)
(* C20.  For every current date and every time-zone offset, getMonthRange  *)
(* returns as start the first and as end the last calendar day of the      *)
(* current local month, for months of 28, 29, 30 and 31 days.              *)
(***************************************************************************)
C20_MonthRange ==
    last.op = "getMonthRange" =>
        /\ IsDate(last.out.start)
        /\ IsDate(last.out.end)
        /\ last.out.start[3] = 1
        /\ DayIndex(last.out.start) <= LocalToday
        /\ LocalToday <= DayIndex(last.out.end)
        /\ last.out.end[1] = last.out.start[1]
        /\ last.out.end[2] = last.out.start[2]
        /\ ~IsDate(<<last.out.end[1], last.out.end[2], last.out.end[3] + 1>>)

(***************************************************************************)
(* C21.  No two mutating actions are in flight at once: whatever the order *)
(* in which the handlers and their awaited saves run, a record that was    *)
(* there, in storage or in memory, is still there after another add has    *)
(* saved and after its snapshot has been put into `data`.                  *)
(***************************************************************************)
\* what a load of the entry of u gives
Persisted(store, u) == getData(store, u).value

AdvCollections == {"customers", "deliveries", "payments"}

\* what the dashboard loads from the store when who is the stored identity
LoadedBy(who, store) ==
    Adv_getData([store EXCEPT ![AdvUserKey] = stringify(who)]).value

C22_SaveIsolated ==
    (last.op \in Handlers /\ last.out = "saved" /\ user \in Identities) =>
        \A other \in Identities \ {user} :
            \A c \in AdvCollections :
                LoadedBy(other, stored)[c] = LoadedBy(other, last.pre.stored)[c]

(***************************************************************************)
(* C23.  Login sets the stored identity; logout removes it and clears the  *)
(* collections in memory, so that from a logout until the next load the    *)
(* customers, deliveries and payments in memory are all empty.             *)
(***************************************************************************)
C23_SessionLifecycle ==
    /\ (last.op = "handleLogin" /\ last.out = "loggedIn") =>
           /\ stored[AdvUserKey] = stringify(last.arg)
           /\ user = last.arg
    /\ (last.op = "handleLogout" /\ last.out = "loggedOut") =>
           /\ stored[AdvUserKey] = NoItem
           /\ user = NoUser
    /\ view = "login" =>
           \A c \in AdvCollections : data[c] = <<>>

(***************************************************************************)
(* C29.  Whenever a user is authenticated and no handler is running, the   *)
(* collections in memory are the persisted ones, whatever logins, adds,    *)
(* deletes, logouts and reloads came before; so an add made after logging  *)
(* in removes no record of its collection that was persisted.              *)
(***************************************************************************)
C29_MemoryIsPersisted ==
    /\ (view = "dashboard" /\ user \in Identities) =>
           \A c \in AdvCollections : data[c] = Adv_getData(stored).value[c]
    /\ (last.op = "addCustomer" /\ last.out = "saved") =>
           IsSubSeq(Adv_getData(last.pre.stored).value.customers,
                    Adv_getData(stored).value.customers)

(***************************************************************************)
(* C24.  Whatever the rate field of the form holds when addCustomer runs,  *)
(* every customer, in memory and in the stored entry, has a rate per       *)
(* bottle that is a positive number.                                       *)
(***************************************************************************)
C24_RatePositive ==
    \A d \in {data, Persisted(stored, user)} :
        \A i \in 1..Len(d.customers) : d.customers[i].rate > 0

(***************************************************************************)
(* C25.  Export produces a snapshot with the four collections as they are  *)
(* in the current data, a business label, an export timestamp and a        *)
(* summary whose counts are the lengths of the collections and whose       *)
(* totals are the sum of the delivery amounts and the sum of the payments  *)
(* received; the data in memory and the stored entry stay as they were.    *)
(* The label and the timestamp may stand in the content or in the name of  *)
(* the file.                                                               *)
(***************************************************************************)
C25_ExportSnapshot ==
    last.op = "exportData" =>
        LET snap == parse(last.out.content)
            d == last.pre.data
        IN  /\ \A c \in Collections : snap[c] = d[c]
            /\ data = d
            /\ stored = last.pre.stored
            /\ "owner" \in DOMAIN snap \/ last.out.download[1] # <<>>
            /\ "exportDate" \in DOMAIN snap \/ IsDate(last.out.download[3])
            /\ "summary" \in DOMAIN snap
            /\ snap.summary.totalCustomers = Len(d.customers)
            /\ snap.summary.totalDeliveries = Len(d.deliveries)
            /\ snap.summary.totalPayments = Len(d.payments)
            /\ snap.summary.totalRevenue
                   = SumIdx([i \in 1..Len(d.deliveries) |-> d.deliveries[i].amount],
                            1..Len(d.deliveries))
            /\ snap.summary.totalPaid
                   = SumIdx([i \in 1..Len(d.payments) |-> d.payments[i].amountReceived],
                            1..Len(d.payments))

(***************************************************************************)
(* C26.  The records of a collection have identifiers distinct from one    *)
(* another, so deleteDelivery(id), deletePayment(id) and deleteExpense(id),*)
(* confirmed and with a record of that id present, remove exactly that one *)
(* record from their own collection; the other records of it, in order,    *)
(* and the other three collections stay as they were.                      *)
(***************************************************************************)
DeletesFrom ==
    {<<"deleteDelivery", "deliveries">>, <<"deletePayment", "payments">>,
     <<"deleteExpense", "expenses">>}

C26_DeleteRemovesOne ==
    \A h \in DeletesFrom :
        LET pre == last.pre.data
            hits == {i \in 1..Len(pre[h[2]]) : pre[h[2]][i].id = last.arg}
        IN  (Saved(h[1]) /\ hits # {}) =>
                /\ \E i \in hits : data[h[2]] = RemoveAt(pre[h[2]], i)
                /\ \A c \in Collections \ {h[2]} : data[c] = pre[c]

(***************************************************************************)
(* C27.  After any sequence of adds and deletes of customers, deliveries   *)
(* and payments from an empty store, every delivery and every payment has  *)
(* the flat number of exactly one existing customer: there are no orphan   *)
(* records, so a customer added under a flat number that was deleted       *)
(* before starts with nothing outstanding.                                 *)
(***************************************************************************)
NoOrphans(d) ==
    \A coll \in {d.deliveries, d.payments} :
        \A i \in 1..Len(coll) :
            Cardinality({j \in 1..Len(d.customers) :
                            d.customers[j].flatNumber = coll[i].flatNumber}) = 1

C27_NoOrphanRecords ==
    /\ NoOrphans(data)
    /\ user # NoUser => NoOrphans(Persisted(stored, user))
    /\ Saved("addCustomer") =>
           getCustomerOutstanding(last.arg.flatNumber, data.deliveries, data.payments) = 0

(***************************************************************************)
(* C28.  In every reachable state the total outstanding shown on the dues  *)
(* view, the sum of all delivery amounts minus the sum of all payments     *)
(* received, is the sum of the outstanding values of the customers that    *)
(* getOverdueDues lists.                                                   *)
(***************************************************************************)
C28_DuesTotalIsSumOfDues ==
    \A today \in DuesNows :
        LET dues == getOverdueDues(data.customers, data.deliveries, data.payments, today)
        IN  getStats(data).outstanding
                = SumIdx([i \in 1..Len(dues) |-> dues[i].outstanding], 1..Len(dues))

(***************************************************************************)
(* C30.  For every instant and every time-zone offset, the date that       *)
(* getTodayString returns lies within the range of getWeekRange and within *)
(* the range of getMonthRange, so that what the today statistics count is  *)
(* counted in the week and in the month statistics as well.                *)
(***************************************************************************)
InRange(date, range) ==
    /\ DayIndex(range.start) <= DayIndex(date)
    /\ DayIndex(date) <= DayIndex(range.end)

C30_TodayWithinRanges ==
    last.op = "getStats" =>
        /\ InRange(last.out.today, last.out.week)
        /\ InRange(last.out.today, last.out.month)

====
